---- MODULE Spec2Model ----
(***************************************************************************)
(* A model of backend/scripts/semantic_chunker.py (SemanticMDXChunker).     *)
(*                                                                         *)
(* Text.  A Python str is modelled as a sequence of tokens.  A token is     *)
(* either the newline NL or the complete content of one non-empty line;     *)
(* TokenChars gives the characters every token stands for, so character     *)
(* offsets, str.find and the per-line regular expressions are computed on   *)
(* the characters, while the line structure (split on "\n", on "\n\n",      *)
(* re.MULTILINE anchors) is computed on the tokens.  An empty line is the   *)
(* absence of a token between two NL.                                       *)
(***************************************************************************)
EXTENDS Integers, Sequences, FiniteSets

VARIABLES chunkers, content, source_file, chunks, phase, calls, pipeline, translation, auth

vars == <<chunkers, content, source_file, chunks, phase, calls, pipeline, translation, auth>>

----------------------------------------------------------------------------
(* Bounds of the model.                                                     *)

\* longest Markdown body document, in lines
MaxLines == 5
\* longest frontmatter-style document, in lines
MaxFMLines == 6
\* largest position a single Chunk is built for in SpecChunkId
MaxPosition == 1100
\* longest document over MetaLines, in lines
MaxMetaLines == 3
\* number of chunk_content calls each thread makes in SpecCalls
MaxCalls == 2
\* largest number of files process_mdx_files finds in SpecPipeline
MaxFiles == 3
\* largest number of lines of a document of SpecClassify
MaxClassifyLines == 3
\* largest number of lines of a document of SpecFences
MaxFenceLines == 4
\* largest number of lines of a document of SpecFrontmatter
MaxFrontLines == 5
\* number of requests the translate endpoints receive in SpecTranslate
MaxRequests == 2
\* largest number of texts of a batch request in SpecTranslate
MaxBatch == 2
\* number of signup requests in SpecSignup
MaxSignups == 3

----------------------------------------------------------------------------
(* Tokens and their characters.                                             *)

NL == "\n"
\* the backquote character, and the line made of three of them
BQ == "BQ"
FENCE == "FENCE"

\* line contents of Markdown body documents
BodyLines == {"x y", "# a", "### c", FENCE}
\* line contents of documents that open with '---' blocks
FMLines == {"k: v", "---"}

\* a fence line that declares a language, and a line with emphasis and
\* inline code
FENCE_PY == "FENCE_PY"
EMPH == "EMPH"

\* line contents of documents with language tags, links, keywords and words
\* the classifier looks for
MetaLines ==
    {"# Title", "Some intro text.", "## Sub", FENCE_PY, "print(1)", FENCE,
     "try [t](u)", EMPH, "api overview"}

\* line contents with classifier words in upper case and of several lists
ClassifyLines == {"First STEP", "API docs", "Demo: next", "api overview", FENCE, "x y"}

\* a frontmatter line whose value holds a colon between unlike quotes
KQ == "KQ"

\* line contents of documents with frontmatter blocks of several kinds of line
FrontLines == {"---", "k: v", KQ, "x y"}

\* a fence line whose tag is followed by a space and more text
FENCE_INFO == "FENCE_INFO"

\* line contents of documents made of fence lines and text
FenceLines == {FENCE, FENCE_PY, FENCE_INFO, "x y"}

Tokens == {NL} \cup BodyLines \cup FMLines \cup MetaLines \cup ClassifyLines \cup FenceLines
            \cup FrontLines

TokenChars(t) ==
    CASE t = NL     -> <<"\n">>
      [] t = "x y"  -> <<"x", " ", "y">>
      [] t = "# a"  -> <<"#", " ", "a">>
      [] t = "### c" -> <<"#", "#", "#", " ", "c">>
      [] t = FENCE  -> <<BQ, BQ, BQ>>
      [] t = "k: v" -> <<"k", ":", " ", "v">>
      [] t = "---"  -> <<"-", "-", "-">>
      [] t = "# Title" -> <<"#", " ", "T", "i", "t", "l", "e">>
      [] t = "Some intro text." ->
            <<"S", "o", "m", "e", " ", "i", "n", "t", "r", "o", " ", "t", "e", "x", "t", ".">>
      [] t = "## Sub" -> <<"#", "#", " ", "S", "u", "b">>
      [] t = FENCE_PY -> <<BQ, BQ, BQ, "p", "y", "t", "h", "o", "n">>
      [] t = "print(1)" -> <<"p", "r", "i", "n", "t", "(", "1", ")">>
      [] t = "try [t](u)" -> <<"t", "r", "y", " ", "[", "t", "]", "(", "u", ")">>
      [] t = EMPH -> <<"*", "e", "*", " ", "t", "h", "e", "n", " ", BQ, "q", BQ>>
      [] t = "api overview" ->
            <<"a", "p", "i", " ", "o", "v", "e", "r", "v", "i", "e", "w">>
      [] t = KQ -> <<"k", ":", " ", "\"", "w", ":", "z", "'">>
      [] t = FENCE_INFO -> <<BQ, BQ, BQ, "p", "y", " ", "x">>
      [] t = "First STEP" -> <<"F", "i", "r", "s", "t", " ", "S", "T", "E", "P">>
      [] t = "API docs" -> <<"A", "P", "I", " ", "d", "o", "c", "s">>
      [] t = "Demo: next" -> <<"D", "e", "m", "o", ":", " ", "n", "e", "x", "t">>

\* str.isspace for one character
IsSpaceChar(c) == c \in {" ", "\n", "\t"}

LowerLetters ==
    <<"a", "b", "c", "d", "e", "f", "g", "h", "i", "j", "k", "l", "m",
      "n", "o", "p", "q", "r", "s", "t", "u", "v", "w", "x", "y", "z">>
UpperLetters ==
    <<"A", "B", "C", "D", "E", "F", "G", "H", "I", "J", "K", "L", "M",
      "N", "O", "P", "Q", "R", "S", "T", "U", "V", "W", "X", "Y", "Z">>
LowerSet == {LowerLetters[i] : i \in 1..Len(LowerLetters)}
UpperSet == {UpperLetters[i] : i \in 1..Len(UpperLetters)}
DigitSet == {"0", "1", "2", "3", "4", "5", "6", "7", "8", "9"}

\* [a-z] and [A-Z] for one character
IsLower(c) == c \in LowerSet
IsUpper(c) == c \in UpperSet

WordCharSet == LowerSet \cup UpperSet \cup DigitSet \cup {"_"}

\* \w for one character
IsWordChar(c) == c \in WordCharSet

\* str.lower for one character and for a string
LowerChar(c) ==
    IF c \in UpperSet
    THEN LowerLetters[CHOOSE i \in 1..Len(UpperLetters) : UpperLetters[i] = c]
    ELSE c
Lowered(cs) == [i \in 1..Len(cs) |-> LowerChar(cs[i])]

RECURSIVE Chars(_)
\* the characters of a text
Chars(text) ==
    IF text = <<>> THEN <<>> ELSE TokenChars(Head(text)) \o Chars(Tail(text))

RECURSIVE CharLen(_)
\* len(text)
CharLen(text) ==
    IF text = <<>> THEN 0 ELSE Len(TokenChars(Head(text))) + CharLen(Tail(text))

RECURSIVE CountWords(_, _)
\* number of maximal runs of non-whitespace characters in cs, the second
\* argument telling whether the previous character was inside a word
CountWords(cs, inWord) ==
    IF cs = <<>> THEN 0
    ELSE IF IsSpaceChar(Head(cs)) THEN CountWords(Tail(cs), FALSE)
    ELSE (IF inWord THEN 0 ELSE 1) + CountWords(Tail(cs), TRUE)

\* len(t.split()) of one token
TokenWords == [t \in Tokens |-> CountWords(TokenChars(t), FALSE)]

\* not t.strip(), for one token
TokenBlank == [t \in Tokens |-> \A i \in 1..Len(TokenChars(t)) : IsSpaceChar(TokenChars(t)[i])]

RECURSIVE WordCount(_)
\* len(text.split()): tokens are separated by NL, so words never span tokens
WordCount(text) ==
    IF text = <<>> THEN 0 ELSE TokenWords[Head(text)] + WordCount(Tail(text))

\* not text.strip()
IsBlank(text) == \A i \in 1..Len(text) : TokenBlank[text[i]]

\* position i of text is where re.MULTILINE '^' matches
AtLineStart(text, i) == i = 1 \/ text[i - 1] = NL

----------------------------------------------------------------------------
(* str.split(sep) and sep.join(parts).                                      *)

RECURSIVE FindFrom(_, _, _)
\* smallest i >= from with s[i .. i+Len(sep)-1] = sep, or 0
FindFrom(s, sep, from) ==
    IF from + Len(sep) - 1 > Len(s) THEN 0
    ELSE IF SubSeq(s, from, from + Len(sep) - 1) = sep THEN from
    ELSE FindFrom(s, sep, from + 1)

RECURSIVE Split(_, _)
\* s.split(sep): left to right, non-overlapping; never returns an empty list
Split(s, sep) ==
    LET i == FindFrom(s, sep, 1)
    IN  IF i = 0 THEN <<s>>
        ELSE <<SubSeq(s, 1, i - 1)>> \o Split(SubSeq(s, i + Len(sep), Len(s)), sep)

RECURSIVE Join(_, _)
\* sep.join(parts)
Join(parts, sep) ==
    IF parts = <<>> THEN <<>>
    ELSE IF Len(parts) = 1 THEN parts[1]
    ELSE parts[1] \o sep \o Join(Tail(parts), sep)

----------------------------------------------------------------------------
(* The regular expressions of __init__, per line.  Over Tokens every line   *)
(* that starts with '#' has the form "#.. title", so the \s+ of the heading *)
(* patterns never has to run across a newline.                              *)

RECURSIVE HashRun(_)
\* number of leading '#' characters
HashRun(cs) == IF cs # <<>> /\ Head(cs) = "#" THEN 1 + HashRun(Tail(cs)) ELSE 0

\* the level n of a line matching ^(#{1,maxLevel})\s+(.+)$, or 0: n hashes,
\* then at least one whitespace character, then at least one more character
HeadingLevel(cs, maxLevel) ==
    LET n == HashRun(cs)
    IN  IF n >= 1 /\ n <= maxLevel /\ Len(cs) >= n + 2 /\ IsSpaceChar(cs[n + 1])
        THEN n ELSE 0

RECURSIVE LStrip(_)
LStrip(cs) == IF cs # <<>> /\ IsSpaceChar(Head(cs)) THEN LStrip(Tail(cs)) ELSE cs

RECURSIVE RStrip(_)
RStrip(cs) ==
    IF cs # <<>> /\ IsSpaceChar(cs[Len(cs)]) THEN RStrip(SubSeq(cs, 1, Len(cs) - 1)) ELSE cs

\* match.group(2).strip() of a heading line
HeadingTitle(cs) == RStrip(LStrip(SubSeq(cs, HashRun(cs) + 1, Len(cs))))

\* the line starts with three backquotes
StartsWithFence(cs) == Len(cs) >= 3 /\ cs[1] = BQ /\ cs[2] = BQ /\ cs[3] = BQ

\* the whole line is three backquotes and then word characters only
IsFenceOpen(cs) == StartsWithFence(cs) /\ \A i \in 4..Len(cs) : IsWordChar(cs[i])

\* a heading of any level, '#' to '######', starts a section
H12_AnyLevel == [t \in Tokens |-> HeadingLevel(TokenChars(t), 6) > 0]

\* re.match(r'^(#{1,2})\s+(.+)$', line) of split_at_heading, per token
H12 == [t \in Tokens |-> HeadingLevel(TokenChars(t), 2) > 0]
\* heading_pattern ^(#{1,6})\s+(.+)$, per token: its level or 0
H16Level == [t \in Tokens |-> HeadingLevel(TokenChars(t), 6)]
TitleOf == [t \in Tokens |-> HeadingTitle(TokenChars(t))]
FenceOpen == [t \in Tokens |-> IsFenceOpen(TokenChars(t))]
FenceStart == [t \in Tokens |-> StartsWithFence(TokenChars(t))]
Dashes == [t \in Tokens |-> TokenChars(t) = <<"-", "-", "-">>]

RECURSIVE CloseFrom_Last(_, _)
\* a greedy .* instead: the last line at or after token j that starts with
\* three backquotes, or 0
CloseFrom_Last(text, j) ==
    IF j > Len(text) THEN 0
    ELSE IF CloseFrom_Last(text, j + 1) # 0 THEN CloseFrom_Last(text, j + 1)
    ELSE IF text[j - 1] = NL /\ FenceStart[text[j]] THEN j
    ELSE 0

RECURSIVE CloseFrom(_, _)
\* the lazy .*? followed by ^ and three backquotes: the first line at or
\* after token j that starts with three backquotes, or 0
CloseFrom(text, j) ==
    IF j > Len(text) THEN 0
    ELSE IF text[j - 1] = NL /\ FenceStart[text[j]] THEN j
    ELSE CloseFrom(text, j + 1)

RECURSIVE FenceScan(_, _)
\* code_fence_pattern.finditer(text) from token i on: the matches in order,
\* each <<opening token, closing token>>.  A match opens at a line that is a
\* fence-open line followed by a newline and closes at the first later line
\* starting with three backquotes; the scan resumes after the match.
FenceScan(text, i) ==
    IF i + 2 > Len(text) THEN <<>>
    ELSE IF AtLineStart(text, i) /\ FenceOpen[text[i]] /\ text[i + 1] = NL
              /\ CloseFrom(text, i + 2) # 0
         THEN <<<<i, CloseFrom(text, i + 2)>>>> \o FenceScan(text, CloseFrom(text, i + 2) + 1)
         ELSE FenceScan(text, i + 1)

\* the matches of code_fence_pattern in text
code_fence_matches(text) == FenceScan(text, 1)

----------------------------------------------------------------------------
(* SemanticMDXChunker                                                       *)

DefaultMin == 200
DefaultMax == 800
DefaultTarget == 500

\* __init__: stores the three sizes as given
SemanticMDXChunker_init(min_chunk_size, max_chunk_size, target_chunk_size) ==
    [min_chunk_size |-> min_chunk_size,
     max_chunk_size |-> max_chunk_size,
     target_chunk_size |-> target_chunk_size]

CodePenalty == 50

\* round(words * 1.3): to the nearest integer, a half to the even one
BaseTokens_Rounded(words) ==
    LET q == (words * 13) \div 10
        r == (words * 13) % 10
    IN  IF r < 5 THEN q
        ELSE IF r > 5 THEN q + 1
        ELSE IF q % 2 = 0 THEN q ELSE q + 1

\* int(words * 1.3): 1.3 is 13/10 and the float product never falls below it
BaseTokens(words) == (words * 13) \div 10

estimate_tokens(text) ==
    BaseTokens(WordCount(text)) + Len(code_fence_matches(text)) * CodePenalty

RECURSIVE FrontmatterClose(_, _)
\* the lazy (.*?) followed by \n---\n: the first k >= from with
\* content[k..k+2] = NL, '---', NL, or 0
FrontmatterClose(text, k) ==
    IF k + 2 > Len(text) THEN 0
    ELSE IF text[k] = NL /\ Dashes[text[k + 1]] /\ text[k + 2] = NL THEN k
    ELSE FrontmatterClose(text, k + 1)

\* extract_frontmatter: ^---\n(.*?)\n---\n matched at the start of content
extract_frontmatter(text) ==
    LET k == IF Len(text) >= 2 /\ Dashes[text[1]] /\ text[2] = NL
             THEN FrontmatterClose(text, 3) ELSE 0
    IN  IF k # 0
        THEN [matched |-> TRUE,
              frontmatter_text |-> SubSeq(text, 3, k - 1),
              remaining_content |-> SubSeq(text, k + 3, Len(text))]
        ELSE [matched |-> FALSE, frontmatter_text |-> <<>>, remaining_content |-> text]

RECURSIVE InsertByStart(_, _)
InsertByStart(sorted, span) ==
    IF sorted = <<>> THEN <<span>>
    ELSE IF span[1] < Head(sorted)[1] THEN <<span>> \o sorted
    ELSE <<Head(sorted)>> \o InsertByStart(Tail(sorted), span)

RECURSIVE SortedByStart(_)
\* sorted(code_blocks, key=lambda x: x[0]) (stable)
SortedByStart(spans) ==
    IF spans = <<>> THEN <<>>
    ELSE InsertByStart(SortedByStart(SubSeq(spans, 1, Len(spans) - 1)), spans[Len(spans)])

\* detect_code_blocks: (match.start(), match.end()) character offsets
detect_code_blocks(text) ==
    LET ms == code_fence_matches(text)
    IN  SortedByStart([n \in 1..Len(ms) |->
            <<CharLen(SubSeq(text, 1, ms[n][1] - 1)),
              CharLen(SubSeq(text, 1, ms[n][2] - 1)) + 3>>])

RECURSIVE HierarchyLoop_KeepsDeeper(_, _, _)
\* the deeper levels are not cleared when a heading is seen
HierarchyLoop_KeepsDeeper(text, i, current_levels) ==
    IF i > Len(text) THEN current_levels
    ELSE IF AtLineStart(text, i) /\ H16Level[text[i]] > 0
         THEN LET level == H16Level[text[i]]
                  kept == DOMAIN current_levels \cup {level}
              IN  HierarchyLoop_KeepsDeeper(text, i + 1,
                      [k \in kept |-> IF k = level THEN TitleOf[text[i]]
                                      ELSE current_levels[k]])
         ELSE HierarchyLoop_KeepsDeeper(text, i + 1, current_levels)

RECURSIVE HierarchyLoop(_, _, _)
\* the loop of extract_heading_hierarchy over heading_pattern.finditer:
\* current_levels is the dict level -> title
HierarchyLoop(text, i, current_levels) ==
    IF i > Len(text) THEN current_levels
    ELSE IF AtLineStart(text, i) /\ H16Level[text[i]] > 0
         THEN LET level == H16Level[text[i]]
                  kept == {k \in DOMAIN current_levels : k < level} \cup {level}
              IN  HierarchyLoop(text, i + 1,
                      [k \in kept |-> IF k = level THEN TitleOf[text[i]]
                                      ELSE current_levels[k]])
         ELSE HierarchyLoop(text, i + 1, current_levels)

RECURSIVE LevelsInOrder(_, _)
\* [current_levels[level] for level in sorted(current_levels.keys())]
LevelsInOrder(current_levels, from) ==
    IF \A k \in DOMAIN current_levels : k < from THEN <<>>
    ELSE IF from \in DOMAIN current_levels
         THEN <<current_levels[from]>> \o LevelsInOrder(current_levels, from + 1)
         ELSE LevelsInOrder(current_levels, from + 1)

extract_heading_hierarchy(text_before) ==
    LevelsInOrder(HierarchyLoop(text_before, 1, <<>>), 1)

RECURSIVE SplitAtHeadingLoop_DropsFinal(_, _, _, _)
\* the section still open after the last line is not appended
SplitAtHeadingLoop_DropsFinal(lines, i, sections, current_section) ==
    IF i > Len(lines) THEN sections
    ELSE LET line == lines[i]
             heading_match == line # <<>> /\ H12[line[1]]
         IN  IF heading_match /\ current_section # <<>>
             THEN SplitAtHeadingLoop_DropsFinal(lines, i + 1,
                      Append(sections, Join(current_section, <<NL>>)), <<line>>)
             ELSE SplitAtHeadingLoop_DropsFinal(lines, i + 1, sections,
                      Append(current_section, line))

RECURSIVE SplitAtHeadingLoop(_, _, _, _)
\* the for loop of split_at_heading and the final append; current_section is
\* a list of lines, and a list holding one empty line is not empty
SplitAtHeadingLoop(lines, i, sections, current_section) ==
    IF i > Len(lines)
    THEN IF current_section # <<>>
         THEN Append(sections, Join(current_section, <<NL>>))
         ELSE sections
    ELSE LET line == lines[i]
             heading_match == line # <<>> /\ H12[line[1]]
         IN  IF heading_match /\ current_section # <<>>
             THEN SplitAtHeadingLoop(lines, i + 1,
                      Append(sections, Join(current_section, <<NL>>)), <<line>>)
             ELSE SplitAtHeadingLoop(lines, i + 1, sections, Append(current_section, line))

split_at_heading(text) == SplitAtHeadingLoop(Split(text, <<NL>>), 1, <<>>, <<>>)

RECURSIVE StrFindFrom(_, _, _)
StrFindFrom(hay, needle, at) ==
    IF at + Len(needle) > Len(hay) THEN -1
    ELSE IF SubSeq(hay, at + 1, at + Len(needle)) = needle THEN at
    ELSE StrFindFrom(hay, needle, at + 1)

\* hay.find(needle): the lowest 0-based character offset, or -1
StrFind(hay, needle) == StrFindFrom(Chars(hay), Chars(needle), 0)

\* the paragraphs joined by one newline instead of two
JoinParagraphs_OneNewline(current_chunk) == Join(current_chunk, <<NL>>)

\* '\n\n'.join(current_chunk)
JoinParagraphs(current_chunk) == Join(current_chunk, <<NL, NL>>)

\* the accumulator is flushed as soon as the target is reached, not exceeded
PackParagraph_FlushAtTarget(cfg, section, code_blocks, st, para) ==
    LET para_size == estimate_tokens(para)
        flush == st.current_size + para_size >= cfg.target_chunk_size
                    /\ st.current_chunk # <<>>
    IN  IF flush
        THEN [chunks |-> Append(st.chunks, JoinParagraphs(st.current_chunk)),
              current_chunk |-> <<para>>,
              current_size |-> para_size]
        ELSE [chunks |-> st.chunks,
              current_chunk |-> Append(st.current_chunk, para),
              current_size |-> st.current_size + para_size]

\* one iteration of the for loop of chunk_large_section; st is
\* [chunks, current_chunk, current_size]
PackParagraph(cfg, section, code_blocks, st, para) ==
    LET para_size == estimate_tokens(para)
        has_code == \E n \in 1..Len(code_blocks) :
                        /\ StrFind(section, para) >= code_blocks[n][1]
                        /\ StrFind(section, para) < code_blocks[n][2]
        flush == st.current_size + para_size > cfg.target_chunk_size
                    /\ st.current_chunk # <<>>
        chunks1 == IF flush THEN Append(st.chunks, JoinParagraphs(st.current_chunk))
                   ELSE st.chunks
        current1 == IF flush THEN <<para>> ELSE Append(st.current_chunk, para)
        size1 == IF flush THEN para_size ELSE st.current_size + para_size
    IN  IF has_code /\ para_size > cfg.max_chunk_size
        THEN [chunks |-> Append(
                            IF Len(current1) > 1
                            THEN Append(chunks1,
                                     JoinParagraphs(SubSeq(current1, 1, Len(current1) - 1)))
                            ELSE chunks1,
                            para),
              current_chunk |-> <<>>,
              current_size |-> 0]
        ELSE [chunks |-> chunks1, current_chunk |-> current1, current_size |-> size1]

\* the accumulator left after the last paragraph is forgotten
PackRemaining_Dropped(st) == st.chunks

\* "Add remaining content": lines 297-301
PackRemaining(st) ==
    IF st.current_chunk # <<>>
    THEN Append(st.chunks, JoinParagraphs(st.current_chunk))
    ELSE st.chunks

RECURSIVE PackLoop(_, _, _, _, _, _)
PackLoop(cfg, section, code_blocks, paragraphs, i, st) ==
    IF i > Len(paragraphs) THEN PackRemaining(st)
    ELSE PackLoop(cfg, section, code_blocks, paragraphs, i + 1,
                  PackParagraph(cfg, section, code_blocks, st, paragraphs[i]))

chunk_large_section(cfg, section, code_blocks) ==
    PackLoop(cfg, section, code_blocks, Split(section, <<NL, NL>>), 1,
             [chunks |-> <<>>, current_chunk |-> <<>>, current_size |-> 0])

----------------------------------------------------------------------------
(* Chunk construction: chunk_content lines 342-371.                         *)

None == "None"

\* the frontmatter dict: extract_frontmatter lines 102-107
RECURSIVE LStripQuotes(_)
LStripQuotes(cs) ==
    IF cs # <<>> /\ Head(cs) \in {"\"", "'"} THEN LStripQuotes(Tail(cs)) ELSE cs

RECURSIVE RStripQuotes(_)
RStripQuotes(cs) ==
    IF cs # <<>> /\ cs[Len(cs)] \in {"\"", "'"}
    THEN RStripQuotes(SubSeq(cs, 1, Len(cs) - 1)) ELSE cs

\* value.strip().strip('"\'')
StripValue(cs) == RStripQuotes(LStripQuotes(RStrip(LStrip(cs))))

\* frontmatter[key.strip()] = value for a dict: the entry of key is replaced
SetItem(frontmatter, key, value) ==
    [k \in DOMAIN frontmatter \cup {key} |-> IF k = key THEN value ELSE frontmatter[k]]

RECURSIVE FrontmatterLoop(_, _, _)
\* lines 104-107: for line in frontmatter_text.split('\n'), from line i on
FrontmatterLoop(lines, i, frontmatter) ==
    IF i > Len(lines) THEN frontmatter
    ELSE LET cs == Chars(lines[i])
             colon == StrFindFrom(cs, <<":">>, 0)
         IN  IF colon >= 0
             THEN FrontmatterLoop(lines, i + 1,
                     SetItem(frontmatter,
                             RStrip(LStrip(SubSeq(cs, 1, colon))),
                             StripValue(SubSeq(cs, colon + 2, Len(cs)))))
             ELSE FrontmatterLoop(lines, i + 1, frontmatter)

\* the first element of the tuple extract_frontmatter returns: None, or the
\* dict of the block's key: value lines
frontmatter_dict(text) ==
    IF extract_frontmatter(text).matched
    THEN FrontmatterLoop(Split(extract_frontmatter(text).frontmatter_text, <<NL>>), 1, <<>>)
    ELSE None

RECURSIVE WordRun(_)
\* the longest prefix of word characters
WordRun(cs) == IF cs # <<>> /\ IsWordChar(Head(cs)) THEN <<Head(cs)>> \o WordRun(Tail(cs)) ELSE <<>>

\* group(1) of ^BQBQBQ([\w]+) on one line, or <<>> when the line does not match
FenceTag == [t \in Tokens |->
    IF StartsWithFence(TokenChars(t))
    THEN WordRun(SubSeq(TokenChars(t), 4, Len(TokenChars(t)))) ELSE <<>>]

RECURSIVE LanguageFrom(_, _)
\* re.search(r'^BQBQBQ([\w]+)', chunk_content, re.MULTILINE): the first match
LanguageFrom(text, i) ==
    IF i > Len(text) THEN None
    ELSE IF AtLineStart(text, i) /\ FenceTag[text[i]] # <<>> THEN FenceTag[text[i]]
    ELSE LanguageFrom(text, i + 1)

RECURSIVE LastIndexOf(_, _, _)
\* the largest i <= upto with s[i] = c, or 0
LastIndexOf(s, c, upto) ==
    IF upto = 0 THEN 0 ELSE IF s[upto] = c THEN upto ELSE LastIndexOf(s, c, upto - 1)

\* Path(source_file).stem: the final path component without its last suffix
PathStem(path) ==
    LET name == SubSeq(path, LastIndexOf(path, "/", Len(path)) + 1, Len(path))
        dot == LastIndexOf(name, ".", Len(name))
    IN  IF dot > 1 /\ dot < Len(name) THEN SubSeq(name, 1, dot - 1) ELSE name

DigitChars == <<"0", "1", "2", "3", "4", "5", "6", "7", "8", "9">>

RECURSIVE Decimal(_)
\* the decimal digits of n >= 0
Decimal(n) ==
    IF n < 10 THEN <<DigitChars[n + 1]>>
    ELSE Decimal(n \div 10) \o <<DigitChars[(n % 10) + 1]>>

RECURSIVE ZeroPad(_, _)
ZeroPad(ds, width) == IF Len(ds) >= width THEN ds ELSE ZeroPad(<<"0">> \o ds, width)

\* the position cut to its last three digits
Format03d_ThreeDigitsOnly(position) == ZeroPad(Decimal(position % 1000), 3)

\* format(position, '03d'): the digits, zero-padded on the left to a width of 3
Format03d(position) == ZeroPad(Decimal(position), 3)

\* f"{Path(source_file).stem}-{position:03d}"
chunk_id(path, position) == PathStem(path) \o <<"-">> \o Format03d(position)

----------------------------------------------------------------------------
(* classify_content_type, extract_keywords and link_pattern.                *)

ExampleWords ==
    {<<"e", "x", "a", "m", "p", "l", "e">>,
     <<"d", "e", "m", "o">>,
     <<"t", "r", "y">>}
ExplanationWords ==
    {<<"w", "h", "a", "t", " ", "i", "s">>,
     <<"i", "n", "t", "r", "o", "d", "u", "c", "t", "i", "o", "n">>,
     <<"o", "v", "e", "r", "v", "i", "e", "w">>,
     <<"u", "n", "d", "e", "r", "s", "t", "a", "n", "d">>}
TutorialWords ==
    {<<"s", "t", "e", "p">>,
     <<"f", "i", "r", "s", "t">>,
     <<"n", "e", "x", "t">>,
     <<"t", "h", "e", "n">>,
     <<"f", "i", "n", "a", "l", "l", "y">>}
ReferenceWords ==
    {<<"a", "p", "i">>,
     <<"f", "u", "n", "c", "t", "i", "o", "n">>,
     <<"p", "a", "r", "a", "m", "e", "t", "e", "r">>,
     <<"r", "e", "t", "u", "r", "n", "s">>}

\* the words of the four lists that occur in t.lower(), per token
WordsIn == [t \in Tokens |->
    {w \in ExampleWords \cup ExplanationWords \cup TutorialWords \cup ReferenceWords :
        StrFindFrom(Lowered(TokenChars(t)), w, 0) >= 0}]

\* any(word in content.lower() for word in words): no word of the lists
\* holds a newline, so a word occurs in the text iff it occurs in one line
AnyWordIn(text, words) ==
    \E i \in 1..Len(text) : WordsIn[text[i]] \cap words # {}

\* the reference words are looked for before the explanation and tutorial words
classify_content_type_ReferenceFirst(text) ==
    IF code_fence_matches(text) # <<>>
    THEN IF AnyWordIn(text, ExampleWords) THEN "code_example" ELSE "code_reference"
    ELSE IF AnyWordIn(text, ReferenceWords) THEN "reference"
    ELSE IF AnyWordIn(text, ExplanationWords) THEN "explanation"
    ELSE IF AnyWordIn(text, TutorialWords) THEN "tutorial"
    ELSE "general"

classify_content_type(text) ==
    IF code_fence_matches(text) # <<>>
    THEN IF AnyWordIn(text, ExampleWords) THEN "code_example" ELSE "code_reference"
    ELSE IF AnyWordIn(text, ExplanationWords) THEN "explanation"
    ELSE IF AnyWordIn(text, TutorialWords) THEN "tutorial"
    ELSE IF AnyWordIn(text, ReferenceWords) THEN "reference"
    ELSE "general"

RECURSIVE WithoutFences(_, _, _)
\* code_fence_pattern.sub('', content), as characters: a match ends after the
\* three backquotes of its closing line, whose remainder stays
WithoutFences(text, matches, from) ==
    IF matches = <<>> THEN Chars(SubSeq(text, from, Len(text)))
    ELSE Chars(SubSeq(text, from, Head(matches)[1] - 1))
            \o SubSeq(TokenChars(text[Head(matches)[2]]), 4,
                      Len(TokenChars(text[Head(matches)[2]])))
            \o WithoutFences(text, Tail(matches), Head(matches)[2] + 1)

RECURSIVE LowerRunEnd(_, _)
\* the index of the last character of the run of [a-z] that starts at i, or
\* i - 1 when there is none
LowerRunEnd(cs, i) ==
    IF i <= Len(cs) /\ IsLower(cs[i]) THEN LowerRunEnd(cs, i + 1) ELSE i - 1

RECURSIVE SpaceRunEnd(_, _)
SpaceRunEnd(cs, i) ==
    IF i <= Len(cs) /\ IsSpaceChar(cs[i]) THEN SpaceRunEnd(cs, i + 1) ELSE i - 1

\* [A-Z][a-z]+ at i with a word boundary behind it: the index of its last
\* character, or 0.  The run of [a-z] has to be the longest one, for a
\* shorter one is followed by a letter, where neither \b nor \s matches.
CapWordEnd(cs, i) ==
    LET e == LowerRunEnd(cs, i + 1)
    IN  IF i <= Len(cs) /\ IsUpper(cs[i]) /\ e > i
              /\ (e = Len(cs) \/ ~IsWordChar(cs[e + 1]))
        THEN e ELSE 0

RECURSIVE CapPhraseEnd(_, _)
\* (?:\s+[A-Z][a-z]+)* after a word that ends at e, greedy
CapPhraseEnd(cs, e) ==
    LET sp == SpaceRunEnd(cs, e + 1)
    IN  IF sp > e /\ CapWordEnd(cs, sp + 1) # 0
        THEN CapPhraseEnd(cs, CapWordEnd(cs, sp + 1))
        ELSE e

RECURSIVE FindCapitalized(_, _)
\* re.findall(r'\b[A-Z][a-z]+(?:\s+[A-Z][a-z]+)*\b', text_only) from i on
FindCapitalized(cs, i) ==
    IF i > Len(cs) THEN <<>>
    ELSE IF (i = 1 \/ ~IsWordChar(cs[i - 1])) /\ CapWordEnd(cs, i) # 0
         THEN <<SubSeq(cs, i, CapPhraseEnd(cs, CapWordEnd(cs, i)))>>
                 \o FindCapitalized(cs, CapPhraseEnd(cs, CapWordEnd(cs, i)) + 1)
         ELSE FindCapitalized(cs, i + 1)

RECURSIVE NextIndexOf(_, _, _)
\* the smallest j >= from with cs[j] = c, or 0
NextIndexOf(cs, c, from) ==
    IF from > Len(cs) THEN 0
    ELSE IF cs[from] = c THEN from
    ELSE NextIndexOf(cs, c, from + 1)

RECURSIVE FindInlineCode(_, _)
\* re.findall of a backquote, ([^BQ]+), a backquote, from i on: group 1
FindInlineCode(cs, i) ==
    IF i > Len(cs) THEN <<>>
    ELSE IF cs[i] # BQ THEN FindInlineCode(cs, i + 1)
    ELSE LET j == NextIndexOf(cs, BQ, i + 1)
         IN  IF j > i + 1
             THEN <<SubSeq(cs, i + 1, j - 1)>> \o FindInlineCode(cs, j + 1)
             ELSE FindInlineCode(cs, i + 1)

RECURSIVE FindEmphasized(_, _)
\* re.findall(r'\*\*([^*]+)\*\*|\*([^*]+)\*', text_only) from i on: the
\* non-empty group of every match
FindEmphasized(cs, i) ==
    IF i > Len(cs) THEN <<>>
    ELSE IF cs[i] # "*" THEN FindEmphasized(cs, i + 1)
    ELSE LET j2 == NextIndexOf(cs, "*", i + 2)
             j1 == NextIndexOf(cs, "*", i + 1)
         IN  IF i + 1 <= Len(cs) /\ cs[i + 1] = "*" /\ j2 > i + 2
                   /\ j2 + 1 <= Len(cs) /\ cs[j2 + 1] = "*"
             THEN <<SubSeq(cs, i + 2, j2 - 1)>> \o FindEmphasized(cs, j2 + 2)
             ELSE IF j1 > i + 1
             THEN <<SubSeq(cs, i + 1, j1 - 1)>> \o FindEmphasized(cs, j1 + 1)
             ELSE FindEmphasized(cs, i + 1)

common_words ==
    {<<"t", "h", "e">>,
     <<"a", "n", "d">>,
     <<"f", "o", "r">>,
     <<"w", "i", "t", "h">>,
     <<"t", "h", "i", "s">>,
     <<"t", "h", "a", "t">>,
     <<"f", "r", "o", "m">>}

DefaultMaxKeywords == 10

Range(f) == {f[i] : i \in DOMAIN f}

\* the characters that occur in a token
CharsIn == [t \in Tokens |-> Range(TokenChars(t))]

\* some line of the text holds a character of the set
HasCharOf(text, set) == \E i \in 1..Len(text) : CharsIn[text[i]] \cap set # {}

\* extract_keywords(content), as a set.  list(set(...))[:max_keywords] keeps
\* all keywords when there are at most max_keywords of them; when there are
\* more, it keeps the first max_keywords in the iteration order of the set,
\* which is fixed for a given set within one run of the interpreter.
extract_keywords(text) ==
    LET text_only == WithoutFences(text, code_fence_matches(text), 1)
        \* a match of the three patterns holds a capital letter, a backquote
        \* or an asterisk respectively
        capitalized == IF HasCharOf(text, UpperSet)
                       THEN Range(FindCapitalized(text_only, 1)) ELSE {}
        inline_code == IF HasCharOf(text, {BQ})
                       THEN Range(FindInlineCode(text_only, 1)) ELSE {}
        emphasized == IF HasCharOf(text, {"*"})
                      THEN Range(FindEmphasized(text_only, 1)) ELSE {}
        found == capitalized \cup inline_code \cup emphasized
        keywords == {k \in found : Lowered(k) \notin common_words}
    IN  IF Cardinality(keywords) <= DefaultMaxKeywords THEN keywords
        ELSE CHOOSE ks \in SUBSET keywords : Cardinality(ks) = DefaultMaxKeywords

RECURSIVE LinkFrom(_, _)
\* link_pattern.search from i on: '[', ([^\]]+), '](' , ([^\)]+), ')'
LinkFrom(cs, i) ==
    IF i > Len(cs) THEN FALSE
    ELSE LET close == NextIndexOf(cs, "]", i + 1)
             paren == NextIndexOf(cs, ")", close + 2)
         IN  \/ /\ cs[i] = "["
                /\ close > i + 1
                /\ close + 1 <= Len(cs)
                /\ cs[close + 1] = "("
                /\ paren > close + 2
             \/ LinkFrom(cs, i + 1)

\* bool(self.link_pattern.search(chunk_content)); a match holds a '['
has_links(text) == HasCharOf(text, {"["}) /\ LinkFrom(Chars(text), 1)

\* the hierarchy read after the chunk's own text was accumulated
HierarchySource_IncludesPiece(accumulated_text, piece) == accumulated_text \o piece \o <<NL>>

\* which text the heading hierarchy of a chunk is read from
HierarchySource(accumulated_text, piece) == accumulated_text

\* Chunk(...) of lines 356-368 for one non-blank piece
\* a chunk has code when a line of it starts a fence with a language tag
has_code_FromLanguage(piece) == LanguageFrom(piece, 1) # None

\* bool(self.code_fence_pattern.search(chunk_content))
has_code(piece) == code_fence_matches(piece) # <<>>

MakeChunk(piece, accumulated_text, position, path) ==
    [content |-> piece,
     heading_hierarchy |-> extract_heading_hierarchy(HierarchySource(accumulated_text, piece)),
     content_type |-> classify_content_type(piece),
     language |-> LanguageFrom(piece, 1),
     keywords |-> extract_keywords(piece),
     character_count |-> CharLen(piece),
     token_estimate |-> estimate_tokens(piece),
     has_code |-> has_code(piece),
     has_links |-> has_links(piece),
     position |-> position,
     chunk_id |-> chunk_id(path, position)]

\* position incremented before the blank check
EmitPiece_CountsBlank(st, piece, path) ==
    IF IsBlank(piece) THEN [st EXCEPT !.position = st.position + 1]
    ELSE [position |-> st.position + 1,
          accumulated_text |-> st.accumulated_text \o piece \o <<NL>>,
          all_chunks |-> Append(st.all_chunks,
                            MakeChunk(piece, st.accumulated_text, st.position + 1, path))]

\* the blank check left out
EmitPiece_KeepsBlank(st, piece, path) ==
    [position |-> st.position + 1,
     accumulated_text |-> st.accumulated_text \o piece \o <<NL>>,
     all_chunks |-> Append(st.all_chunks,
                       MakeChunk(piece, st.accumulated_text, st.position + 1, path))]

\* one iteration of the inner for loop of chunk_content (lines 338-371); st is
\* [position, accumulated_text, all_chunks]
EmitPiece(st, piece, path) ==
    IF IsBlank(piece) THEN st
    ELSE [position |-> st.position + 1,
          accumulated_text |-> st.accumulated_text \o piece \o <<NL>>,
          all_chunks |-> Append(st.all_chunks,
                            MakeChunk(piece, st.accumulated_text, st.position + 1, path))]

RECURSIVE EmitPieces(_, _, _, _)
EmitPieces(st, pieces, i, path) ==
    IF i > Len(pieces) THEN st
    ELSE EmitPieces(EmitPiece(st, pieces[i], path), pieces, i + 1, path)

\* a section whose estimate equals max_chunk_size is packed too
SectionChunks_PacksAtMax(cfg, section, code_blocks) ==
    IF estimate_tokens(section) < cfg.max_chunk_size
    THEN <<section>>
    ELSE chunk_large_section(cfg, section, code_blocks)

\* section_chunks of lines 328-335
SectionChunks(cfg, section, code_blocks) ==
    IF estimate_tokens(section) <= cfg.max_chunk_size
    THEN <<section>>
    ELSE chunk_large_section(cfg, section, code_blocks)

RECURSIVE SectionLoop(_, _, _, _, _, _)
\* the outer for loop of chunk_content (line 327)
SectionLoop(cfg, sections, code_blocks, i, st, path) ==
    IF i > Len(sections) THEN st
    ELSE SectionLoop(cfg, sections, code_blocks, i + 1,
             EmitPieces(st, SectionChunks(cfg, sections[i], code_blocks), 1, path), path)

\* chunk_content(content, source_file) on the chunker cfg
chunk_content(cfg, text, path) ==
    LET main_content == extract_frontmatter(text).remaining_content
        code_blocks == detect_code_blocks(main_content)
        sections == split_at_heading(main_content)
    IN  SectionLoop(cfg, sections, code_blocks, 1,
            [position |-> 0, accumulated_text |-> <<>>, all_chunks |-> <<>>],
            path).all_chunks

----------------------------------------------------------------------------
(* The inputs.                                                              *)

\* the values the constructor is called with
MinSizes == {1, 2}
TargetSizes == {1, 3}
MaxSizes == {1, 3, 55}

SourceFiles == {<<"docs", "/", "intro", ".", "mdx">>}

RECURSIVE LineSeqs(_, _)
\* the sequences of 1..n lines, each line <<>> (empty) or <<t>> with t in kinds
LineSeqs(kinds, n) ==
    IF n = 0 THEN {}
    ELSE LET shorter == LineSeqs(kinds, n - 1)
             one == {<<>>} \cup {<<t>> : t \in kinds}
         IN  {<<l>> : l \in one} \cup shorter
                \cup {Append(ls, l) : ls \in {x \in shorter : Len(x) = n - 1}, l \in one}

\* the documents: the lines joined by newlines
Docs ==
    {Join(ls, <<NL>>) : ls \in LineSeqs(BodyLines, MaxLines)}
        \cup {Join(ls, <<NL>>) : ls \in LineSeqs(FMLines, MaxFMLines)}

----------------------------------------------------------------------------
(* The state machine: construction, chunk_content on a document, and        *)
(* chunk_content on the content of a chunk the previous call returned.      *)

\* chunkers is the set of SemanticMDXChunker objects constructed so far (at
\* most one); content and source_file are the arguments of the chunk_content
\* call, chosen when the run starts; chunks is the list the last call
\* returned; phase tells whether chunk_content has not been called yet
\* ("input"), has returned for the document ("chunked"), or has returned
\* for the content of a chunk of the previous result ("rechunked"); calls
\* and pipeline belong to SpecCalls and SpecPipeline and stay empty here
Init ==
    /\ chunkers = {}
    /\ content \in Docs
    /\ source_file \in SourceFiles
    /\ chunks = <<>>
    /\ phase = "input"
    /\ calls = <<>>
    /\ pipeline = <<>>
    /\ translation = <<>>
    /\ auth = <<>>

NewChunker(mn, mx, tg) ==
    /\ chunkers = {}
    /\ chunkers' = {SemanticMDXChunker_init(mn, mx, tg)}
    /\ UNCHANGED <<content, source_file, chunks, phase, calls, pipeline, translation, auth>>

ChunkContent(self) ==
    /\ phase = "input"
    /\ chunks' = chunk_content(self, content, source_file)
    /\ phase' = "chunked"
    /\ UNCHANGED <<chunkers, content, source_file, calls, pipeline, translation, auth>>

Rechunk(self, k) ==
    /\ phase # "input"
    /\ content' = chunks[k].content
    /\ chunks' = chunk_content(self, chunks[k].content, source_file)
    /\ phase' = "rechunked"
    /\ UNCHANGED <<chunkers, source_file, calls, pipeline, translation, auth>>

Next ==
    \/ \E mn \in MinSizes, mx \in MaxSizes, tg \in TargetSizes : NewChunker(mn, mx, tg)
    \/ \E self \in chunkers : ChunkContent(self)
    \/ \E self \in chunkers, k \in 1..Len(chunks) : Rechunk(self, k)

Spec == Init /\ [][Next]_vars

----------------------------------------------------------------------------
(* Chunk construction alone, for any position: lines 356-368 applied to a   *)
(* fixed non-blank piece with position drawn from 1..MaxPosition.           *)

IdSourceFiles == {<<"docs", "/", "intro", ".", "mdx">>, <<"README">>}

InitChunkId ==
    /\ chunkers = {SemanticMDXChunker_init(DefaultMin, DefaultMax, DefaultTarget)}
    /\ content = <<"x y">>
    /\ source_file \in IdSourceFiles
    /\ chunks = <<>>
    /\ phase = "input"
    /\ calls = <<>>
    /\ pipeline = <<>>
    /\ translation = <<>>
    /\ auth = <<>>

BuildChunk(position) ==
    /\ phase = "input"
    /\ chunks' = <<MakeChunk(content, <<>>, position, source_file)>>
    /\ phase' = "built"
    /\ UNCHANGED <<chunkers, content, source_file, calls, pipeline, translation, auth>>

NextChunkId == \E position \in 1..MaxPosition : BuildChunk(position)

SpecChunkId == InitChunkId /\ [][NextChunkId]_vars

----------------------------------------------------------------------------
(* chunk_content on chunkers whose target_chunk_size lets a fenced block    *)
(* share a chunk with other paragraphs: a block of two fence lines is       *)
(* estimated at 52, so a target of 60 packs it with a short paragraph.      *)

PackMaxSizes == {1, 55}
PackTargetSizes == {3, 60}

InitPack ==
    /\ \E mx \in PackMaxSizes, tg \in PackTargetSizes :
          chunkers = {SemanticMDXChunker_init(1, mx, tg)}
    /\ content \in Docs
    /\ source_file \in SourceFiles
    /\ chunks = <<>>
    /\ phase = "input"
    /\ calls = <<>>
    /\ pipeline = <<>>
    /\ translation = <<>>
    /\ auth = <<>>

NextPack == \E self \in chunkers : ChunkContent(self)

SpecPack == InitPack /\ [][NextPack]_vars

----------------------------------------------------------------------------
(* chunk_content on documents with language tags, links, keywords and       *)
(* classifier words, under the default sizes and under small ones.          *)

\* '# Title\n\nSome intro text.\n\n## Sub\n\n', a python block, '\n'
ExampleDoc ==
    <<"# Title", NL, NL, "Some intro text.", NL, NL, "## Sub", NL, NL,
      FENCE_PY, NL, "print(1)", NL, FENCE, NL>>

MetaDocs == {ExampleDoc} \cup {Join(ls, <<NL>>) : ls \in LineSeqs(MetaLines, MaxMetaLines)}

DefaultChunker == SemanticMDXChunker_init(DefaultMin, DefaultMax, DefaultTarget)

InitMeta ==
    /\ chunkers \in {{DefaultChunker}, {SemanticMDXChunker_init(1, 3, 3)}}
    /\ content \in MetaDocs
    /\ source_file \in SourceFiles
    /\ chunks = <<>>
    /\ phase = "input"
    /\ calls = <<>>
    /\ pipeline = <<>>
    /\ translation = <<>>
    /\ auth = <<>>

NextMeta == \E self \in chunkers : ChunkContent(self)

SpecMeta == InitMeta /\ [][NextMeta]_vars

----------------------------------------------------------------------------
(* chunk_content on documents whose lines hold classifier words in either   *)
(* case, words of several lists at once, and fences.                        *)

ClassifyDocs == {Join(ls, <<NL>>) : ls \in LineSeqs(ClassifyLines, MaxClassifyLines)}

InitClassify ==
    /\ chunkers \in {{DefaultChunker}, {SemanticMDXChunker_init(1, 3, 3)}}
    /\ content \in ClassifyDocs
    /\ source_file \in SourceFiles
    /\ chunks = <<>>
    /\ phase = "input"
    /\ calls = <<>>
    /\ pipeline = <<>>
    /\ translation = <<>>
    /\ auth = <<>>

NextClassify == \E self \in chunkers : ChunkContent(self)

SpecClassify == InitClassify /\ [][NextClassify]_vars

----------------------------------------------------------------------------
(* chunk_content on documents made of fence lines, with and without a tag,  *)
(* and text lines: closed, unclosed and consecutive fences.                 *)

FenceDocs == {Join(ls, <<NL>>) : ls \in LineSeqs(FenceLines, MaxFenceLines)}

InitFences ==
    /\ chunkers \in {{DefaultChunker}, {SemanticMDXChunker_init(1, 1, 1)}}
    /\ content \in FenceDocs
    /\ source_file \in SourceFiles
    /\ chunks = <<>>
    /\ phase = "input"
    /\ calls = <<>>
    /\ pipeline = <<>>
    /\ translation = <<>>
    /\ auth = <<>>

NextFences == \E self \in chunkers : ChunkContent(self)

SpecFences == InitFences /\ [][NextFences]_vars

----------------------------------------------------------------------------
(* chunk_content on documents whose lines are '---' markers, key: value     *)
(* lines, with and without quotes, and lines without a colon.               *)

FrontDocs == {Join(ls, <<NL>>) : ls \in LineSeqs(FrontLines, MaxFrontLines)}

InitFrontmatter ==
    /\ chunkers = {DefaultChunker}
    /\ content \in FrontDocs
    /\ source_file \in SourceFiles
    /\ chunks = <<>>
    /\ phase = "input"
    /\ calls = <<>>
    /\ pipeline = <<>>
    /\ translation = <<>>
    /\ auth = <<>>

NextFrontmatter == \E self \in chunkers : ChunkContent(self)

SpecFrontmatter == InitFrontmatter /\ [][NextFrontmatter]_vars

----------------------------------------------------------------------------
(* Two threads call chunk_content on one chunker, each several times, and   *)
(* their calls interleave between the iterations of the loop over the       *)
(* sections.  calls[t] is the frame of the current or last call of thread   *)
(* t: its arguments, the values of lines 315-321, the index of the next     *)
(* section, and the local accumulators position, accumulated_text and       *)
(* all_chunks.                                                              *)

Threads == {1, 2}

CallDocs ==
    {ExampleDoc,
     <<"# Title", NL, "## Sub">>,
     <<"try [t](u)", NL, NL, EMPH>>}

IdleFrame ==
    [pc |-> "idle", made |-> 0, content |-> <<>>, sections |-> <<>>,
     code_blocks |-> <<>>, next |-> 0, position |-> 0,
     accumulated_text |-> <<>>, all_chunks |-> <<>>, returned |-> <<>>]

\* the accumulators start from what the last call of the thread left
NewLocals_KeptAcrossCalls(frame) ==
    [position |-> frame.position,
     accumulated_text |-> frame.accumulated_text,
     all_chunks |-> <<>>]

\* lines 323-325: the accumulators are local variables, set afresh by every
\* call whatever frame the thread had before
NewLocals(frame) ==
    [position |-> 0, accumulated_text |-> <<>>, all_chunks |-> <<>>]

InitCalls ==
    /\ chunkers \in {{DefaultChunker}, {SemanticMDXChunker_init(1, 1, 1)}}
    /\ content = <<>>
    /\ source_file \in SourceFiles
    /\ chunks = <<>>
    /\ phase = "calls"
    /\ calls = [t \in Threads |-> IdleFrame]
    /\ pipeline = <<>>
    /\ translation = <<>>
    /\ auth = <<>>

\* thread t calls chunk_content(doc, source_file): lines 315-325
CallChunkContent(self, t, doc) ==
    /\ calls[t].pc \in {"idle", "returned"}
    /\ calls[t].made < MaxCalls
    /\ LET main_content == extract_frontmatter(doc).remaining_content
           locals == NewLocals(calls[t])
       IN  calls' = [calls EXCEPT ![t] =
               [pc |-> "running",
                made |-> calls[t].made + 1,
                content |-> doc,
                sections |-> split_at_heading(main_content),
                code_blocks |-> detect_code_blocks(main_content),
                next |-> 1,
                position |-> locals.position,
                accumulated_text |-> locals.accumulated_text,
                all_chunks |-> locals.all_chunks,
                returned |-> <<>>]]
    /\ UNCHANGED <<chunkers, content, source_file, chunks, phase, pipeline, translation, auth>>

\* one iteration of the loop over the sections in thread t: lines 327-371
RunSection(self, t) ==
    /\ calls[t].pc = "running"
    /\ calls[t].next <= Len(calls[t].sections)
    /\ LET st == EmitPieces(
                    [position |-> calls[t].position,
                     accumulated_text |-> calls[t].accumulated_text,
                     all_chunks |-> calls[t].all_chunks],
                    SectionChunks(self, calls[t].sections[calls[t].next],
                                  calls[t].code_blocks),
                    1, source_file)
       IN  calls' = [calls EXCEPT ![t].next = calls[t].next + 1,
                                  ![t].position = st.position,
                                  ![t].accumulated_text = st.accumulated_text,
                                  ![t].all_chunks = st.all_chunks]
    /\ UNCHANGED <<chunkers, content, source_file, chunks, phase, pipeline, translation, auth>>

\* return all_chunks in thread t: line 373
ReturnChunks(self, t) ==
    /\ calls[t].pc = "running"
    /\ calls[t].next > Len(calls[t].sections)
    /\ calls' = [calls EXCEPT ![t].pc = "returned",
                              ![t].returned = calls[t].all_chunks]
    /\ UNCHANGED <<chunkers, content, source_file, chunks, phase, pipeline, translation, auth>>

NextCalls ==
    \/ \E self \in chunkers, t \in Threads, doc \in CallDocs : CallChunkContent(self, t, doc)
    \/ \E self \in chunkers, t \in Threads : RunSection(self, t)
    \/ \E self \in chunkers, t \in Threads : ReturnChunks(self, t)

SpecCalls == InitCalls /\ [][NextCalls]_vars

----------------------------------------------------------------------------
(* process_mdx_files of generate_embeddings.py: the loop over the files     *)
(* found, and the final upload.  pipeline holds the list of files (each by  *)
(* its content), the number of files the loop is done with, all_embeddings, *)
(* the counters, the set of files whose processing raised, and the batches  *)
(* handed to qdrant_service.upsert_embeddings.  The embedding service is a  *)
(* collaborator: a call of generate_embeddings_batch either raises or       *)
(* returns one vector per text, and the vector and the random id of an      *)
(* entry are left out of it, as are the payload fields read from the path.  *)

FileDocs == {<<>>, <<"x y">>, <<"# a", NL, "# a">>}

RECURSIVE FileLists(_)
\* the lists of up to n files
FileLists(n) ==
    IF n = 0 THEN {<<>>}
    ELSE FileLists(n - 1)
            \cup {Append(fs, d) : fs \in {x \in FileLists(n - 1) : Len(x) = n - 1},
                                  d \in FileDocs}

\* the path of the i-th file found
FilePath(i) == <<"docs", "/", "w">> \o Decimal(i) \o <<".", "mdx">>

\* chunker.chunk_file(file_path) for the i-th file, when the read succeeds
chunk_file(self, files, i) == chunk_content(self, files[i], FilePath(i))

\* the entries lines 144-182 append for the chunks of file i
Payloads(i, file_chunks) ==
    [k \in 1..Len(file_chunks) |->
        [file_path |-> FilePath(i),
         content |-> file_chunks[k].content,
         chunk_id |-> file_chunks[k].chunk_id,
         position |-> file_chunks[k].position,
         heading_hierarchy |-> file_chunks[k].heading_hierarchy,
         content_type |-> file_chunks[k].content_type,
         keywords |-> file_chunks[k].keywords,
         has_code |-> file_chunks[k].has_code,
         language |-> IF file_chunks[k].language = None THEN <<"n", "o", "n", "e">>
                      ELSE file_chunks[k].language,
         has_links |-> file_chunks[k].has_links,
         character_count |-> file_chunks[k].character_count,
         token_estimate |-> file_chunks[k].token_estimate]]

RECURSIVE SumTokens(_)
SumTokens(file_chunks) ==
    IF file_chunks = <<>> THEN 0
    ELSE Head(file_chunks).token_estimate + SumTokens(Tail(file_chunks))

\* the loop stops at the first file that raises
NextFileAfterError_Abort(index, files) == Len(files)

\* except Exception ... continue (lines 194-196): the loop goes on with the
\* file after the one that raised
NextFileAfterError(index, files) == index + 1

InitPipeline ==
    /\ chunkers = {DefaultChunker}
    /\ content = <<>>
    /\ source_file \in SourceFiles
    /\ chunks = <<>>
    /\ phase = "pipeline"
    /\ calls = <<>>
    /\ translation = <<>>
    /\ auth = <<>>
    /\ \E files \in FileLists(MaxFiles) :
          pipeline = [pc |-> "files", mdx_files |-> files, index |-> 0,
                      all_embeddings |-> <<>>, total_chunks |-> 0, total_tokens |-> 0,
                      failed |-> {}, upserted |-> <<>>]

\* lines 92-94: no file found
NoFilesFound ==
    /\ pipeline.pc = "files"
    /\ pipeline.mdx_files = <<>>
    /\ pipeline' = [pipeline EXCEPT !.pc = "done"]
    /\ UNCHANGED <<chunkers, content, source_file, chunks, phase, calls, translation, auth>>

\* line 120 raises (the file cannot be read or decoded): lines 194-196
ChunkFileRaises ==
    /\ pipeline.pc = "files"
    /\ pipeline.index < Len(pipeline.mdx_files)
    /\ pipeline' = [pipeline EXCEPT
          !.failed = pipeline.failed \cup {pipeline.index + 1},
          !.index = NextFileAfterError(pipeline.index, pipeline.mdx_files)]
    /\ UNCHANGED <<chunkers, content, source_file, chunks, phase, calls, translation, auth>>

\* lines 120-125: the file yields no chunks
NoChunks(self) ==
    /\ pipeline.pc = "files"
    /\ pipeline.index < Len(pipeline.mdx_files)
    /\ chunk_file(self, pipeline.mdx_files, pipeline.index + 1) = <<>>
    /\ pipeline' = [pipeline EXCEPT !.index = pipeline.index + 1]
    /\ UNCHANGED <<chunkers, content, source_file, chunks, phase, calls, translation, auth>>

\* lines 120-141: the file yields chunks and generate_embeddings_batch
\* raises; lines 194-196
EmbeddingRaises(self) ==
    /\ pipeline.pc = "files"
    /\ pipeline.index < Len(pipeline.mdx_files)
    /\ chunk_file(self, pipeline.mdx_files, pipeline.index + 1) # <<>>
    /\ pipeline' = [pipeline EXCEPT
          !.failed = pipeline.failed \cup {pipeline.index + 1},
          !.index = NextFileAfterError(pipeline.index, pipeline.mdx_files)]
    /\ UNCHANGED <<chunkers, content, source_file, chunks, phase, calls, translation, auth>>

\* lines 120-192: the file yields chunks, they are embedded and queued
FileEmbedded(self) ==
    /\ pipeline.pc = "files"
    /\ pipeline.index < Len(pipeline.mdx_files)
    /\ LET file_chunks == chunk_file(self, pipeline.mdx_files, pipeline.index + 1)
       IN  /\ file_chunks # <<>>
           /\ pipeline' = [pipeline EXCEPT
                 !.all_embeddings = pipeline.all_embeddings
                                       \o Payloads(pipeline.index + 1, file_chunks),
                 !.total_chunks = pipeline.total_chunks + Len(file_chunks),
                 !.total_tokens = pipeline.total_tokens + SumTokens(file_chunks),
                 !.index = pipeline.index + 1]
    /\ UNCHANGED <<chunkers, content, source_file, chunks, phase, calls, translation, auth>>

\* lines 203-208: after the loop, the queue is uploaded in one call
UpsertEmbeddings ==
    /\ pipeline.pc = "files"
    /\ pipeline.mdx_files # <<>>
    /\ pipeline.index >= Len(pipeline.mdx_files)
    /\ pipeline.all_embeddings # <<>>
    /\ pipeline' = [pipeline EXCEPT !.pc = "done",
                                    !.upserted = <<pipeline.all_embeddings>>]
    /\ UNCHANGED <<chunkers, content, source_file, chunks, phase, calls, translation, auth>>

\* lines 223-224: after the loop, nothing was queued
NothingToUpload ==
    /\ pipeline.pc = "files"
    /\ pipeline.mdx_files # <<>>
    /\ pipeline.index >= Len(pipeline.mdx_files)
    /\ pipeline.all_embeddings = <<>>
    /\ pipeline' = [pipeline EXCEPT !.pc = "done"]
    /\ UNCHANGED <<chunkers, content, source_file, chunks, phase, calls, translation, auth>>

NextPipeline ==
    \/ NoFilesFound
    \/ ChunkFileRaises
    \/ \E self \in chunkers : NoChunks(self)
    \/ \E self \in chunkers : EmbeddingRaises(self)
    \/ \E self \in chunkers : FileEmbedded(self)
    \/ UpsertEmbeddings
    \/ NothingToUpload

SpecPipeline == InitPipeline /\ [][NextPipeline]_vars

----------------------------------------------------------------------------
(* services/translation.py (TranslationService) behind the endpoints of     *)
(* api/translate.py, on one asyncio event loop.  A coroutine runs without   *)
(* interruption from one await to the next, so an action is the code        *)
(* between two awaits.  translation holds the service's _cache, the         *)
(* requests received in order of arrival, each with the translate calls it  *)
(* made, and two histories: model_calls, the calls of                       *)
(* self.model.generate_content that have returned or raised, and stored,    *)
(* the confidence of the response whose text each cache entry holds.        *)
(* Confidences are in hundredths.  The external model is a collaborator: a  *)
(* call returns a text, returns no candidate, or raises.                    *)

RequestTexts == {<<"a">>, <<"b">>}

\* an item of BatchTranslationRequest.texts is any str, also the empty one
BatchItems == RequestTexts \cup {<<>>}

RECURSIVE TextLists(_)
\* the lists of up to n batch items
TextLists(n) ==
    IF n = 0 THEN {<<>>}
    ELSE TextLists(n - 1)
            \cup {Append(ts, t) : ts \in {x \in TextLists(n - 1) : Len(x) = n - 1},
                                  t \in BatchItems}

LanguagePairs == {<<"en", "ur">>, <<"ur", "en">>, <<"en", "en">>, <<"en", "fr">>}

ModelReplies == {"text", "none", "raise"}

valid_languages == {"en", "ur"}

CachedConfidence == 100
ModelConfidence == 95
FallbackConfidence == 0
SameLanguageConfidence == 100
ErrorConfidence == 0

\* hashlib.md5(f"{text}:{source_lang}:{target_lang}"), md5 taken as injective
get_cache_key(text, source_lang, target_lang) ==
    text \o <<":", source_lang, ":", target_lang>>

\* response.text.strip() of a reply with a candidate
ModelText(text, target_language) == <<"[", target_language, "]">> \o text

TranslationResponse(original_text, translated_text, source_language, target_language, confidence, cached) ==
    [original_text |-> original_text, translated_text |-> translated_text,
     source_language |-> source_language, target_language |-> target_language,
     confidence |-> confidence, cached |-> cached]

\* the classes an exception is an instance of
Bases(class) ==
    CASE class = "HTTPException" -> {"HTTPException", "Exception"}
      [] class = "ValidationError" -> {"ValidationError", "ValueError", "Exception"}
      [] class = "Exception" -> {"Exception"}

\* the except clauses of translate_text and translate_batch, for an exception
\* raised inside their try: the status of the HTTPException they raise
EndpointExcept(class) ==
    IF "ValueError" \in Bases(class) THEN 400 ELSE 500

\* translate up to its first await (lines 145-179): a cache hit returns the
\* cached text, a miss calls the model in the executor and waits
TranslateUntilAwait(cache, text, source_language, target_language) ==
    LET cache_key == get_cache_key(text, source_language, target_language)
    IN  IF cache_key \in DOMAIN cache
        THEN [pc |-> "returned",
              result |-> TranslationResponse(text, cache[cache_key], source_language,
                                             target_language, CachedConfidence, TRUE)]
        ELSE [pc |-> "awaiting", result |-> None]

\* translate after the model call (lines 181-210)
TranslateAfterAwait(text, source_language, target_language, reply) ==
    IF reply = "raise" THEN [pc |-> "raised", result |-> None]
    ELSE [pc |-> "returned",
          result |-> IF reply = "none"
                     THEN TranslationResponse(text, text, source_language, target_language,
                                              FallbackConfidence, FALSE)
                     ELSE TranslationResponse(text, ModelText(text, target_language),
                                              source_language, target_language,
                                              ModelConfidence, FALSE)]

\* batch_translate after gather (lines 243-269)
BatchTranslationResponse(tasks, source_language, target_language) ==
    LET translations ==
            [i \in 1..Len(tasks) |->
                IF tasks[i].pc = "raised"
                THEN TranslationResponse(<<>>, <<"[Translation Error]">>, source_language,
                                         target_language, ErrorConfidence, FALSE)
                ELSE tasks[i].result]
    IN  [translations |-> translations,
         total_count |-> Len(translations),
         cached_count |-> Cardinality({i \in 1..Len(tasks) :
                               tasks[i].pc = "returned" /\ tasks[i].result.cached})]

NewRequest(endpoint, texts, pair, pc, tasks, status, response) ==
    [endpoint |-> endpoint, texts |-> texts,
     source_language |-> pair[1], target_language |-> pair[2],
     pc |-> pc, tasks |-> tasks, status |-> status, response |-> response]

InitTranslate ==
    /\ chunkers = {}
    /\ content = <<>>
    /\ source_file = <<>>
    /\ chunks = <<>>
    /\ phase = "translate"
    /\ calls = <<>>
    /\ pipeline = <<>>
    /\ translation = [_cache |-> <<>>, requests |-> <<>>, model_calls |-> <<>>,
                      stored |-> <<>>]
    /\ auth = <<>>

\* POST /api/translate/: translate_text up to the first await of translate
TranslateText(text, pair) ==
    /\ Len(translation.requests) < MaxRequests
    /\ LET task == TranslateUntilAwait(translation._cache, text, pair[1], pair[2])
           request ==
               IF pair[1] \notin valid_languages \/ pair[2] \notin valid_languages
               THEN NewRequest("translate_text", <<text>>, pair, "done", <<>>,
                               EndpointExcept("HTTPException"), None)
               ELSE IF pair[1] = pair[2]
               THEN NewRequest("translate_text", <<text>>, pair, "done", <<>>, 200,
                               TranslationResponse(text, text, pair[1], pair[2],
                                                   SameLanguageConfidence, FALSE))
               ELSE IF task.pc = "returned"
               THEN NewRequest("translate_text", <<text>>, pair, "done", <<task>>, 200,
                               task.result)
               ELSE NewRequest("translate_text", <<text>>, pair, "awaiting", <<task>>,
                               0, None)
       IN  translation' = [translation EXCEPT !.requests = Append(@, request)]
    /\ UNCHANGED <<chunkers, content, source_file, chunks, phase, calls, pipeline, auth>>

\* POST /api/translate/batch: translate_batch and batch_translate up to the
\* await of gather; the coroutines are created and not yet started
TranslateBatch(texts, pair) ==
    /\ Len(translation.requests) < MaxRequests
    /\ LET request ==
               IF pair[1] \notin valid_languages \/ pair[2] \notin valid_languages
               THEN NewRequest("translate_batch", texts, pair, "done", <<>>,
                               EndpointExcept("HTTPException"), None)
               ELSE IF Len(texts) = 0
               THEN NewRequest("translate_batch", texts, pair, "done", <<>>,
                               EndpointExcept("HTTPException"), None)
               ELSE IF \E i \in 1..Len(texts) : Len(texts[i]) < 1
               THEN NewRequest("translate_batch", texts, pair, "done", <<>>,
                               EndpointExcept("ValidationError"), None)
               ELSE NewRequest("translate_batch", texts, pair, "gathering",
                               [i \in 1..Len(texts) |-> [pc |-> "created", result |-> None]],
                               0, None)
       IN  translation' = [translation EXCEPT !.requests = Append(@, request)]
    /\ UNCHANGED <<chunkers, content, source_file, chunks, phase, calls, pipeline, auth>>

\* the tasks of one gather start one after the other, each up to its await
GatherStart(r) ==
    /\ r \in 1..Len(translation.requests)
    /\ translation.requests[r].pc = "gathering"
    /\ LET request == translation.requests[r]
       IN  translation' = [translation EXCEPT
             !.requests[r].pc = "awaiting",
             !.requests[r].tasks =
                 [i \in 1..Len(request.texts) |->
                     TranslateUntilAwait(translation._cache, request.texts[i],
                                         request.source_language, request.target_language)]]
    /\ UNCHANGED <<chunkers, content, source_file, chunks, phase, calls, pipeline, auth>>

\* the model call of task i of request r returns or raises, and translate
\* runs to its end; translate_text then answers
ModelReply(r, i, reply) ==
    /\ r \in 1..Len(translation.requests)
    /\ translation.requests[r].pc = "awaiting"
    /\ i \in 1..Len(translation.requests[r].tasks)
    /\ translation.requests[r].tasks[i].pc = "awaiting"
    /\ LET request == translation.requests[r]
           cache_key == get_cache_key(request.texts[i], request.source_language,
                                      request.target_language)
           task == TranslateAfterAwait(request.texts[i], request.source_language,
                                       request.target_language, reply)
           single == request.endpoint = "translate_text"
       IN  translation' = [translation EXCEPT
             !._cache = IF reply = "raise" THEN @
                       ELSE SetItem(@, cache_key, task.result.translated_text),
             !.stored = IF reply = "raise" THEN @
                        ELSE SetItem(@, cache_key, task.result.confidence),
             !.model_calls = Append(@, [cache_key |-> cache_key, reply |-> reply]),
             !.requests[r].tasks[i] = task,
             !.requests[r].pc = IF single THEN "done" ELSE @,
             !.requests[r].status =
                 IF ~single THEN @
                 ELSE IF reply = "raise" THEN EndpointExcept("Exception") ELSE 200,
             !.requests[r].response = IF single THEN task.result ELSE @]
    /\ UNCHANGED <<chunkers, content, source_file, chunks, phase, calls, pipeline, auth>>

\* gather has every result: batch_translate builds its response and
\* translate_batch answers
BatchReturn(r) ==
    /\ r \in 1..Len(translation.requests)
    /\ translation.requests[r].endpoint = "translate_batch"
    /\ translation.requests[r].pc = "awaiting"
    /\ \A i \in 1..Len(translation.requests[r].tasks) :
          translation.requests[r].tasks[i].pc \in {"returned", "raised"}
    /\ LET request == translation.requests[r]
       IN  translation' = [translation EXCEPT
             !.requests[r].pc = "done",
             !.requests[r].status = 200,
             !.requests[r].response =
                 BatchTranslationResponse(request.tasks, request.source_language,
                                          request.target_language)]
    /\ UNCHANGED <<chunkers, content, source_file, chunks, phase, calls, pipeline, auth>>

NextTranslate ==
    \/ \E text \in RequestTexts, pair \in LanguagePairs : TranslateText(text, pair)
    \/ \E texts \in TextLists(MaxBatch), pair \in LanguagePairs : TranslateBatch(texts, pair)
    \/ \E r \in 1..MaxRequests : GatherStart(r)
    \/ \E r \in 1..MaxRequests, i \in 1..MaxBatch, reply \in ModelReplies :
          ModelReply(r, i, reply)
    \/ \E r \in 1..MaxRequests : BatchReturn(r)

SpecTranslate == InitTranslate /\ [][NextTranslate]_vars

----------------------------------------------------------------------------
(* POST /auth/signup (api/auth.py) on the users table that                  *)
(* Database.create_users_table creates: id SERIAL PRIMARY KEY, email UNIQUE *)
(* NOT NULL.  Every request runs on a connection of its own and each        *)
(* statement is a transaction of its own, so the SELECT and the INSERT of   *)
(* one request are two steps that the statements of other requests can      *)
(* come between.  auth holds db.pool, the rows of users, the next value of  *)
(* the id sequence, and the requests in order of arrival.                   *)

Emails == {"a@x.org", "b@x.org"}

InitSignup ==
    /\ chunkers = {}
    /\ content = <<>>
    /\ source_file = <<>>
    /\ chunks = <<>>
    /\ phase = "signup"
    /\ calls = <<>>
    /\ pipeline = <<>>
    /\ translation = <<>>
    /\ \E pool \in BOOLEAN :
          auth = [pool |-> pool, users |-> {}, next_id |-> 1, requests |-> <<>>]

\* email VARCHAR(255) UNIQUE NOT NULL: the INSERT raises UniqueViolationError
\* when a row with the email exists
UniqueViolation(users, email) == \E row \in users : row.email = email

\* lines 15-22: the pool check, the password hash, and pool.acquire()
SignupStart(email) ==
    /\ Len(auth.requests) < MaxSignups
    /\ auth' = [auth EXCEPT !.requests =
          Append(@, IF ~auth.pool
                    THEN [email |-> email, pc |-> "done", status |-> 503, user |-> None]
                    ELSE [email |-> email, pc |-> "select", status |-> 0, user |-> None])]
    /\ UNCHANGED <<chunkers, content, source_file, chunks, phase, calls, pipeline, translation>>

\* lines 24-31: SELECT id FROM users WHERE email = $1, and the 400 answer
SignupSelect(r) ==
    /\ r \in 1..Len(auth.requests)
    /\ auth.requests[r].pc = "select"
    /\ LET existing_user == \E row \in auth.users : row.email = auth.requests[r].email
       IN  auth' = [auth EXCEPT
             !.requests[r].pc = IF existing_user THEN "done" ELSE "insert",
             !.requests[r].status = IF existing_user THEN 400 ELSE @]
    /\ UNCHANGED <<chunkers, content, source_file, chunks, phase, calls, pipeline, translation>>

\* lines 34-64: INSERT ... RETURNING, the token, and the except clause; the
\* sequence value is used up also when the INSERT fails
SignupInsert(r) ==
    /\ r \in 1..Len(auth.requests)
    /\ auth.requests[r].pc = "insert"
    /\ LET email == auth.requests[r].email
           row == [id |-> auth.next_id, email |-> email]
       IN  IF UniqueViolation(auth.users, email)
           THEN auth' = [auth EXCEPT !.next_id = @ + 1,
                                     !.requests[r].pc = "done",
                                     !.requests[r].status = 500]
           ELSE auth' = [auth EXCEPT !.next_id = @ + 1,
                                     !.users = @ \cup {row},
                                     !.requests[r].pc = "done",
                                     !.requests[r].status = 200,
                                     !.requests[r].user = row]
    /\ UNCHANGED <<chunkers, content, source_file, chunks, phase, calls, pipeline, translation>>

NextSignup ==
    \/ \E email \in Emails : SignupStart(email)
    \/ \E r \in 1..MaxSignups : SignupSelect(r)
    \/ \E r \in 1..MaxSignups : SignupInsert(r)

SpecSignup == InitSignup /\ [][NextSignup]_vars

----------------------------------------------------------------------------
(* What the properties are stated in.                                       *)

\* chunk_content has returned
Returned == phase \in {"chunked", "rechunked"}

\* the body: the document without its leading frontmatter block
Body == extract_frontmatter(content).remaining_content

HasFrontmatter == extract_frontmatter(content).matched

Contents == [k \in 1..Len(chunks) |-> chunks[k].content]

RECURSIVE Concat(_)
Concat(texts) == IF texts = <<>> THEN <<>> ELSE Head(texts) \o Concat(Tail(texts))

RECURSIVE NonSpace(_)
\* cs without its whitespace characters
NonSpace(cs) ==
    IF cs = <<>> THEN <<>>
    ELSE IF IsSpaceChar(Head(cs)) THEN NonSpace(Tail(cs))
    ELSE <<Head(cs)>> \o NonSpace(Tail(cs))

RECURSIVE StartsFrom(_, _, _, _)
\* where the texts k.. lie in body when each is looked for from the end of
\* the one before it: the token index of its first token, or 0 if it does
\* not occur from there on
StartsFrom(body, texts, k, from) ==
    IF k > Len(texts) THEN <<>>
    ELSE LET at == FindFrom(body, texts[k], from)
         IN  IF at = 0 THEN <<0>> \o StartsFrom(body, texts, k + 1, from)
             ELSE <<at>> \o StartsFrom(body, texts, k + 1, at + Len(texts[k]))

\* the start of every chunk in the body
ChunkStarts == StartsFrom(Body, Contents, 1, 1)

\* chunk k holds the tokens i..j of the body
ChunkHolds(k, i, j) ==
    /\ ChunkStarts[k] # 0
    /\ ChunkStarts[k] <= i
    /\ j <= ChunkStarts[k] + Len(chunks[k].content) - 1

\* minimum <= target <= maximum, all positive
ValidConfig(c) ==
    /\ c.min_chunk_size > 0
    /\ c.min_chunk_size <= c.target_chunk_size
    /\ c.target_chunk_size <= c.max_chunk_size

\* the complete fenced code blocks of the body, as token ranges
BodyFences == code_fence_matches(Body)

FenceText(n) == SubSeq(Body, BodyFences[n][1], BodyFences[n][2])

RECURSIVE PiecesFrom(_, _, _, _)
\* the section_chunks of all sections, in order
PiecesFrom(cfg, sections, code_blocks, i) ==
    IF i > Len(sections) THEN <<>>
    ELSE SectionChunks(cfg, sections[i], code_blocks)
            \o PiecesFrom(cfg, sections, code_blocks, i + 1)

Pieces(cfg) == PiecesFrom(cfg, split_at_heading(Body), detect_code_blocks(Body), 1)

----------------------------------------------------------------------------
(* C1 .. C10                                                                *)

\* C1: under a valid configuration, every complete fenced code block of the
\* body whose own estimate does not exceed max_chunk_size lies in full inside
\* one chunk: no chunk boundary falls inside it.
C1_CodeAtomicity ==
    Returned =>
        \A c \in chunkers : ValidConfig(c) =>
            \A n \in 1..Len(BodyFences) :
                estimate_tokens(FenceText(n)) <= c.max_chunk_size
                    => \E k \in 1..Len(chunks) :
                           ChunkHolds(k, BodyFences[n][1], BodyFences[n][2])

\* C2 as stated: the contents of the chunks, concatenated in list order, are
\* exactly the body.
C2_ExactCoverage == Returned => Concat(Contents) = Body

\* C2 amended: the concatenated contents and the body are the same sequence
\* of characters once the whitespace characters are deleted from both.
C2_CoverageModuloWhitespace ==
    Returned => NonSpace(Chars(Concat(Contents))) = NonSpace(Chars(Body))

\* a document with a frontmatter block whose body was cut into several chunks
C2_Witness ==
    /\ phase = "chunked"
    /\ HasFrontmatter
    /\ Len(chunks) >= 2
    /\ Concat(Contents) # Body

\* C3: the chunks carry the positions 1, 2, ..., N in list order.
C3_PositionsContiguous ==
    Returned => \A k \in 1..Len(chunks) : chunks[k].position = k

\* a blank piece was skipped between two emitted chunks
C3_Witness ==
    /\ phase = "chunked"
    /\ Len(chunks) >= 2
    /\ \E c \in chunkers : ValidConfig(c) /\
         \E j \in 1..Len(Pieces(c)) :
            /\ IsBlank(Pieces(c)[j])
            /\ \E i \in 1..(j - 1) : ~IsBlank(Pieces(c)[i])
            /\ \E l \in (j + 1)..Len(Pieces(c)) : ~IsBlank(Pieces(c)[l])

\* C4: under a valid configuration, every complete fenced code block whose
\* estimate exceeds max_chunk_size lies in full inside one chunk, and a body
\* that is nothing but such a block yields exactly one chunk, the block.
C4_OversizeIsolation ==
    Returned =>
        \A c \in chunkers : ValidConfig(c) =>
            \A n \in 1..Len(BodyFences) :
                estimate_tokens(FenceText(n)) > c.max_chunk_size
                    => /\ \E k \in 1..Len(chunks) :
                              ChunkHolds(k, BodyFences[n][1], BodyFences[n][2])
                       /\ FenceText(n) = Body => Contents = <<Body>>

\* C5: the first chunk has an empty heading_hierarchy, and every title in the
\* heading_hierarchy of chunk k is the title of a heading line that starts in
\* the body strictly before chunk k does.
C5_HierarchyFromEarlierText ==
    Returned =>
        /\ chunks # <<>> => chunks[1].heading_hierarchy = <<>>
        /\ \A k \in 1..Len(chunks) :
              /\ ChunkStarts[k] # 0
              /\ \A m \in 1..Len(chunks[k].heading_hierarchy) :
                    \E i \in 1..(ChunkStarts[k] - 1) :
                        /\ AtLineStart(Body, i)
                        /\ H16Level[Body[i]] > 0
                        /\ TitleOf[Body[i]] = chunks[k].heading_hierarchy[m]

\* a chunk with a non-empty hierarchy that itself holds a heading line whose
\* title is not in that hierarchy
C5_Witness ==
    /\ phase = "chunked"
    /\ \E k \in 1..Len(chunks) :
          /\ chunks[k].heading_hierarchy # <<>>
          /\ \E i \in 1..Len(chunks[k].content) :
                /\ H16Level[chunks[k].content[i]] > 0
                /\ \A m \in 1..Len(chunks[k].heading_hierarchy) :
                      chunks[k].heading_hierarchy[m] # TitleOf[chunks[k].content[i]]

\* C6: every content is a contiguous piece of the body, and the pieces lie in
\* the body in list order without overlapping.
C6_ContentsAreOrderedSubstrings ==
    Returned => \A k \in 1..Len(chunks) : ChunkStarts[k] # 0

\* several chunks under a valid configuration, one of them packed by
\* chunk_large_section from two or more non-blank paragraphs
C6_Witness ==
    /\ phase = "chunked"
    /\ Len(chunks) >= 2
    /\ \E c \in chunkers : ValidConfig(c) /\
         \E i \in 1..Len(split_at_heading(Body)) :
            LET section == split_at_heading(Body)[i]
                packed == chunk_large_section(c, section, detect_code_blocks(Body))
            IN  /\ estimate_tokens(section) > c.max_chunk_size
                /\ \E n \in 1..Len(packed) :
                      /\ Len(Split(packed[n], <<NL, NL>>)) >= 2
                      /\ \A q \in 1..Len(Split(packed[n], <<NL, NL>>)) :
                            ~IsBlank(Split(packed[n], <<NL, NL>>)[q])

\* C7: every chunker object that exists has positive sizes with
\* min_chunk_size <= target_chunk_size <= max_chunk_size.
C7_InvalidConfigRejected == \A c \in chunkers : ValidConfig(c)

\* C8: a blank body yields no chunks, and no chunk has blank content.
C8_BlankYieldsNothing ==
    Returned =>
        /\ IsBlank(Body) => chunks = <<>>
        /\ \A k \in 1..Len(chunks) : ~IsBlank(chunks[k].content)

\* a document that is a frontmatter block followed by blank text only
C8_Witness ==
    /\ phase = "chunked"
    /\ HasFrontmatter
    /\ Body # <<>>
    /\ IsBlank(Body)
    /\ chunks = <<>>

\* C9: under a valid configuration, chunk_content on the content of a chunk
\* it returned yields at least one chunk.
C9_RechunkYieldsChunk ==
    phase = "rechunked" => \A c \in chunkers : ValidConfig(c) => chunks # <<>>

RECURSIVE DigitsValue(_, _)
\* the number a digit string writes, read left to right from acc
DigitsValue(ds, acc) ==
    IF ds = <<>> THEN acc
    ELSE DigitsValue(Tail(ds),
             acc * 10 + (CHOOSE d \in 0..9 : DigitChars[d + 1] = Head(ds)))

\* C10: the chunk_id is the stem, a hyphen and the position written in
\* decimal, zero-padded to three digits and never cut; the chunk_id of any
\* other position, up to MaxPosition, differs.
C10_ChunkIdUnique ==
    \A k \in 1..Len(chunks) :
        LET id == chunks[k].chunk_id
            stem == PathStem(source_file)
            digits == SubSeq(id, Len(stem) + 2, Len(id))
        IN  /\ SubSeq(id, 1, Len(stem) + 1) = stem \o <<"-">>
            /\ Len(digits) >= 3
            /\ \A i \in 1..Len(digits) : \E d \in 1..10 : DigitChars[d] = digits[i]
            /\ DigitsValue(digits, 0) = chunks[k].position
            /\ Len(digits) > 3 => digits[1] # "0"
            /\ \A q \in 1..MaxPosition :
                  q # chunks[k].position => chunk_id(source_file, q) # id

\* a chunk built for a position above 999
C10_Witness == chunks # <<>> /\ chunks[1].position > 999 /\ phase = "built"

----------------------------------------------------------------------------
(* C11 .. C20                                                               *)

\* the sections chunk_content cut the body into
Sections == split_at_heading(Body)

\* the lines of a text, each <<>> or <<t>>
LinesOf(text) == Split(text, <<NL>>)

\* the line is '#' or '##', whitespace, and a title
IsMajorHeadingLine(line) == line # <<>> /\ HeadingLevel(TokenChars(line[1]), 2) > 0

\* C15: a new section starts at every H1/H2 heading line but the very first
\* line of the body: there is one section more than such lines, every section
\* after the first begins with such a line, no section holds such a line after
\* its first line, and the first section is the text before the first of them.
C15_SectionsStartAtMajorHeadings ==
    Returned =>
        LET sections == Sections
            lines == LinesOf(Body)
            heads == {i \in 2..Len(lines) : IsMajorHeadingLine(lines[i])}
            first == IF heads = {} THEN Len(lines) + 1
                     ELSE CHOOSE i \in heads : \A j \in heads : i <= j
        IN  /\ Len(sections) = 1 + Cardinality(heads)
            /\ \A n \in 1..Len(sections) :
                  LET ls == LinesOf(sections[n])
                  IN  /\ n > 1 => IsMajorHeadingLine(ls[1])
                      /\ \A i \in 2..Len(ls) : ~IsMajorHeadingLine(ls[i])
            /\ LinesOf(sections[1]) = SubSeq(lines, 1, first - 1)

\* the body opens with an H1/H2 heading, which starts no new section, holds a
\* deeper heading inside a section, and is cut at a later H1/H2 heading
C15_Witness ==
    /\ phase = "chunked"
    /\ IsMajorHeadingLine(LinesOf(Body)[1])
    /\ Len(Sections) >= 2
    /\ \E n \in 1..Len(Sections) : \E i \in 2..Len(LinesOf(Sections[n])) :
          /\ LinesOf(Sections[n])[i] # <<>>
          /\ HeadingLevel(TokenChars(LinesOf(Sections[n])[i][1]), 6) > 2

\* C16: every section is a non-empty group of consecutive lines of the body,
\* the groups taken in order are the lines of the body, each once, and the
\* sections joined by single newlines are the body.
C16_SectionsRejoin ==
    Returned =>
        LET sections == Sections
            body == Body
        IN  /\ Join(sections, <<NL>>) = body
            /\ Concat([n \in 1..Len(sections) |-> LinesOf(sections[n])]) = LinesOf(body)
            /\ \A n \in 1..Len(sections) : Len(LinesOf(sections[n])) >= 1

\* a body that starts with an empty line and ends with one, cut into three
\* or more sections, the first being the empty line alone
C16_Witness ==
    /\ phase = "chunked"
    /\ Len(Sections) >= 3
    /\ Sections[1] = <<>>
    /\ Body[Len(Body)] = NL

RECURSIVE SectionStart(_, _)
\* the token index in the body of the first token of section n
SectionStart(sections, n) ==
    IF n = 1 THEN 1 ELSE SectionStart(sections, n - 1) + Len(sections[n - 1]) + 1

\* of the chunks that start in the body at starts, those that start inside
\* section n
ChunksOfSection(sections, starts, n) ==
    LET from == SectionStart(sections, n)
    IN  {k \in 1..Len(starts) : starts[k] >= from /\ starts[k] < from + Len(sections[n])}

\* C19: every section that is not blank and whose estimate is at most
\* max_chunk_size yields exactly one chunk, and its content is the section.
C19_SmallSectionOneChunk ==
    Returned =>
        LET sections == Sections
            starts == ChunkStarts
        IN  \A c \in chunkers : \A n \in 1..Len(sections) :
                (estimate_tokens(sections[n]) <= c.max_chunk_size /\ ~IsBlank(sections[n]))
                    => \E k \in 1..Len(chunks) :
                           /\ ChunksOfSection(sections, starts, n) = {k}
                           /\ chunks[k].content = sections[n]

\* a section with a blank line inside and an estimate of exactly
\* max_chunk_size, next to a section whose estimate exceeds it
C19_Witness ==
    /\ phase = "chunked"
    /\ \E c \in chunkers :
          /\ \E n \in 1..Len(Sections) :
                /\ estimate_tokens(Sections[n]) = c.max_chunk_size
                /\ FindFrom(Sections[n], <<NL, NL>>, 1) # 0
                /\ ~IsBlank(Sections[n])
          /\ \E n \in 1..Len(Sections) :
                /\ estimate_tokens(Sections[n]) > c.max_chunk_size
                /\ ChunksOfSection(Sections, ChunkStarts, n) # {}

\* the text accumulated when chunk k was built: every earlier content
\* followed by a newline
AccumulatedBefore(k) == Concat([j \in 1..(k - 1) |-> chunks[j].content \o <<NL>>])

\* the level of the heading that starts at token i of text, or 0
LevelAt(text, i) ==
    IF AtLineStart(text, i) THEN HeadingLevel(TokenChars(text[i]), 6) ELSE 0

\* no heading after token i has a level less than or equal to that of i
Survives(text, i) ==
    \A j \in (i + 1)..Len(text) : LevelAt(text, j) = 0 \/ LevelAt(text, j) > LevelAt(text, i)

RECURSIVE SurvivorTitles(_, _)
\* the titles of the surviving headings from token i on, in text order
SurvivorTitles(text, i) ==
    IF i > Len(text) THEN <<>>
    ELSE IF LevelAt(text, i) > 0 /\ Survives(text, i)
         THEN <<HeadingTitle(TokenChars(text[i]))>> \o SurvivorTitles(text, i + 1)
         ELSE SurvivorTitles(text, i + 1)

\* C20: the heading_hierarchy of every chunk lists, in text order, the titles
\* of exactly those headings of the accumulated text that no later heading of
\* the same or a higher rank follows; their levels ascend strictly, and the
\* last heading of the text is the last element.
C20_ReplaceAndTruncate ==
    Returned =>
        \A k \in 1..Len(chunks) :
            LET text == AccumulatedBefore(k)
                r == chunks[k].heading_hierarchy
                heads == {i \in 1..Len(text) : LevelAt(text, i) > 0}
                kept == {i \in heads : Survives(text, i)}
            IN  /\ r = SurvivorTitles(text, 1)
                /\ Len(r) = Cardinality(kept)
                /\ \A i \in kept, j \in kept : i < j => LevelAt(text, i) < LevelAt(text, j)
                /\ heads # {} =>
                      /\ r # <<>>
                      /\ \E i \in heads :
                            /\ \A j \in heads : j <= i
                            /\ r[Len(r)] = HeadingTitle(TokenChars(text[i]))

\* a chunk built after a deeper heading was truncated by a later heading of a
\* higher rank, and a heading was replaced by a later one of its own level
C20_Witness ==
    /\ phase = "chunked"
    /\ \E k \in 1..Len(chunks) :
          LET text == AccumulatedBefore(k)
          IN  /\ chunks[k].heading_hierarchy # <<>>
              /\ \E i \in 1..Len(text), j \in 1..Len(text) :
                    i < j /\ LevelAt(text, j) > 0 /\ LevelAt(text, i) > LevelAt(text, j)
              /\ \E i \in 1..Len(text), j \in 1..Len(text) :
                    i < j /\ LevelAt(text, i) > 0 /\ LevelAt(text, i) = LevelAt(text, j)

\* the paragraphs of a text
ParagraphsOf(text) == Split(text, <<NL, NL>>)

RECURSIVE SumEstimates(_)
\* the sum of the estimates of the paragraphs
SumEstimates(paras) ==
    IF paras = <<>> THEN 0 ELSE estimate_tokens(Head(paras)) + SumEstimates(Tail(paras))

RECURSIVE NonBlankOnly(_)
NonBlankOnly(texts) ==
    IF texts = <<>> THEN <<>>
    ELSE IF IsBlank(Head(texts)) THEN NonBlankOnly(Tail(texts))
    ELSE <<Head(texts)>> \o NonBlankOnly(Tail(texts))

RECURSIVE InOrder(_, _)
\* the contents of the chunks whose index is in ks, ascending from k
InOrder(ks, k) ==
    IF k > Len(chunks) THEN <<>>
    ELSE IF k \in ks THEN <<chunks[k].content>> \o InOrder(ks, k + 1)
    ELSE InOrder(ks, k + 1)

\* the pieces partition the paragraphs of the section in order, each piece of
\* two or more paragraphs sums to at most the target, and the chunks that
\* start in the section are its non-blank pieces
PackedInOrder(c, section, pieces, ks) ==
    /\ Concat([j \in 1..Len(pieces) |-> ParagraphsOf(pieces[j])]) = ParagraphsOf(section)
    /\ \A j \in 1..Len(pieces) :
          Len(ParagraphsOf(pieces[j])) >= 2
              => SumEstimates(ParagraphsOf(pieces[j])) <= c.target_chunk_size
    /\ InOrder(ks, 1) = NonBlankOnly(pieces)

\* the running estimate of piece j plus the estimate of the paragraph that
\* opens piece j + 1 exceeds the target
FlushedOverTarget(c, pieces, j) ==
    SumEstimates(ParagraphsOf(pieces[j]))
        + estimate_tokens(ParagraphsOf(pieces[j + 1])[1]) > c.target_chunk_size

\* the piece is one paragraph whose estimate exceeds max_chunk_size
OversizeAlone(c, piece) ==
    Len(ParagraphsOf(piece)) = 1 /\ estimate_tokens(piece) > c.max_chunk_size

RECURSIVE ParagraphStart(_, _)
\* the token index in the section of the first token of its paragraph m
ParagraphStart(paras, m) ==
    IF m = 1 THEN 1 ELSE ParagraphStart(paras, m - 1) + Len(paras[m - 1]) + 2

\* the tokens from..upto of the body hold a complete fenced block of the body
\* whose own estimate exceeds max_chunk_size
HoldsOversizeSpan(c, from, upto) ==
    \E q \in 1..Len(BodyFences) :
        /\ from <= BodyFences[q][1]
        /\ BodyFences[q][2] <= upto
        /\ estimate_tokens(FenceText(q)) > c.max_chunk_size

\* C18: in every packed section, a paragraph that holds a fenced block whose
\* estimate exceeds max_chunk_size is a chunk of its own, wherever the
\* section lies in the body and wherever the block starts in the paragraph.
C18_OversizeCodeForceFlushed ==
    Returned =>
        LET sections == Sections
            starts == ChunkStarts
        IN  \A c \in chunkers : \A n \in 1..Len(sections) :
                estimate_tokens(sections[n]) > c.max_chunk_size =>
                    LET paras == ParagraphsOf(sections[n])
                    IN  \A m \in 1..Len(paras) :
                            LET from == SectionStart(sections, n) + ParagraphStart(paras, m) - 1
                            IN  HoldsOversizeSpan(c, from, from + Len(paras[m]) - 1) =>
                                    \E k \in 1..Len(chunks) :
                                        /\ chunks[k].content = paras[m]
                                        /\ starts[k] = from

\* C12: chunk_content on the example document, with the default sizes,
\* returns exactly one chunk: a code_reference with has_code, the language
\* python and an empty heading_hierarchy.
C12_ExampleOneChunk ==
    (phase = "chunked" /\ content = ExampleDoc /\ chunkers = {DefaultChunker}) =>
        /\ Len(chunks) = 1
        /\ chunks[1].content_type = "code_reference"
        /\ chunks[1].has_code
        /\ chunks[1].language = <<"p", "y", "t", "h", "o", "n">>
        /\ chunks[1].heading_hierarchy = <<>>

\* C13: a chunk has a language only if its content holds a complete fenced
\* block and the first of them opens with a language tag, and the language is
\* then that tag; otherwise the language is None.
C13_LanguageOfFirstBlock ==
    Returned =>
        \A k \in 1..Len(chunks) :
            LET text == chunks[k].content
                blocks == code_fence_matches(text)
                tag == IF blocks = <<>> THEN <<>>
                       ELSE WordRun(SubSeq(TokenChars(text[blocks[1][1]]), 4,
                                           Len(TokenChars(text[blocks[1][1]]))))
            IN  chunks[k].language = IF tag = <<>> THEN None ELSE tag

\* C11: whatever a thread called before on the chunker and however the calls
\* of the two threads interleave, a call returns the chunks that
\* chunk_content yields for its content and source_file on that
\* configuration alone, every field included, and the content_type of each
\* chunk is what classify_content_type gives for its content.
C11_NoStateAcrossCalls ==
    \A t \in DOMAIN calls :
        calls[t].pc = "returned" =>
            \A c \in chunkers :
                /\ calls[t].returned = chunk_content(c, calls[t].content, source_file)
                /\ \A k \in 1..Len(calls[t].returned) :
                      calls[t].returned[k].content_type
                          = classify_content_type(calls[t].returned[k].content)

\* thread 1 has returned several chunks from its second call while thread 2,
\* in its second call too and on another document, is between two sections
C11_Witness ==
    /\ phase = "calls"
    /\ calls[1].pc = "returned"
    /\ calls[1].made = 2
    /\ Len(calls[1].returned) >= 2
    /\ calls[2].pc = "running"
    /\ calls[2].made = 2
    /\ calls[2].next >= 2
    /\ calls[2].next <= Len(calls[2].sections)
    /\ calls[2].content # calls[1].content

RECURSIVE QueueOf(_, _, _)
\* the entries of the files 1..upto that did not raise, in file order
QueueOf(files, failed, upto) ==
    IF upto = 0 THEN <<>>
    ELSE QueueOf(files, failed, upto - 1)
            \o (IF upto \in failed THEN <<>>
                ELSE Payloads(upto, chunk_content(DefaultChunker, files[upto], FilePath(upto))))

\* C14: in process_mdx_files, a file whose chunking or embedding raises is
\* skipped alone: none of its chunks is queued, the queue holds the entries
\* of every other file the loop has passed, the run ends only after the loop
\* has passed every file, and the final upsert uploads exactly that queue.
C14_FailedFileSkippedAlone ==
    phase = "pipeline" =>
        /\ pipeline.index <= Len(pipeline.mdx_files)
        /\ \A n \in 1..Len(pipeline.all_embeddings) : \A i \in pipeline.failed :
              pipeline.all_embeddings[n].file_path # FilePath(i)
        /\ pipeline.all_embeddings
              = QueueOf(pipeline.mdx_files, pipeline.failed, pipeline.index)
        /\ pipeline.pc = "done" =>
              /\ pipeline.index = Len(pipeline.mdx_files)
              /\ pipeline.upserted
                    = IF pipeline.all_embeddings = <<>> THEN <<>>
                      ELSE <<QueueOf(pipeline.mdx_files, pipeline.failed,
                                     Len(pipeline.mdx_files))>>

\* the run has ended with an upload that holds entries of a file before and
\* of a file after one whose processing raised although it has chunks
C14_Witness ==
    /\ phase = "pipeline"
    /\ pipeline.pc = "done"
    /\ pipeline.upserted # <<>>
    /\ \E i \in pipeline.failed :
          /\ chunk_content(DefaultChunker, pipeline.mdx_files[i], FilePath(i)) # <<>>
          /\ \E n \in 1..Len(pipeline.upserted[1]) :
                pipeline.upserted[1][n].file_path = FilePath(i + 1)
          /\ \E n \in 1..Len(pipeline.upserted[1]) :
                pipeline.upserted[1][n].file_path = FilePath(i - 1)

----------------------------------------------------------------------------
(* C21 .. C30                                                               *)

\* word occurs in text.lower(), character by character
OccursLowered(text, word) == StrFindFrom(Lowered(Chars(text)), word, 0) >= 0

AnyOccursLowered(text, words) == \E w \in words : OccursLowered(text, w)

ContentTypes ==
    {"code_example", "code_reference", "explanation", "tutorial", "reference", "general"}

\* C21: classify_content_type applies its rules in a fixed order, the first
\* match wins, and the words are searched as substrings whatever their case:
\* a complete code fence with an example word gives code_example, a fence
\* otherwise code_reference, else an explanation word gives explanation, else
\* a tutorial word tutorial, else a reference word reference, else general;
\* the label is always one of the six.
C21_FirstRuleWins ==
    Returned =>
        \A k \in 1..Len(chunks) :
            LET text == chunks[k].content
                label == chunks[k].content_type
                fenced == code_fence_matches(text) # <<>>
                example == AnyOccursLowered(text, ExampleWords)
                explanation == AnyOccursLowered(text, ExplanationWords)
                tutorial == AnyOccursLowered(text, TutorialWords)
                reference == AnyOccursLowered(text, ReferenceWords)
            IN  /\ label \in ContentTypes
                /\ label = "code_example" <=> fenced /\ example
                /\ label = "code_reference" <=> fenced /\ ~example
                /\ label = "explanation" <=> ~fenced /\ explanation
                /\ label = "tutorial" <=> ~fenced /\ ~explanation /\ tutorial
                /\ label = "reference" <=> ~fenced /\ ~explanation /\ ~tutorial /\ reference
                /\ label = "general"
                      <=> ~fenced /\ ~explanation /\ ~tutorial /\ ~reference

\* a chunk is labelled tutorial although it also holds a reference word, and
\* its tutorial words are written with upper-case letters only
C21_Witness ==
    /\ Returned
    /\ \E k \in 1..Len(chunks) :
          /\ chunks[k].content_type = "tutorial"
          /\ AnyOccursLowered(chunks[k].content, ReferenceWords)
          /\ \A w \in TutorialWords : StrFindFrom(Chars(chunks[k].content), w, 0) < 0

\* len(text.split()), character by character
SplitWords(text) == CountWords(Chars(text), FALSE)

\* C22 as stated: token_estimate of every chunk is round(1.3 x words of its
\* content) + 50 x complete code fences of its content.
C22_EstimateRounds ==
    Returned =>
        \A k \in 1..Len(chunks) :
            chunks[k].token_estimate
                = BaseTokens_Rounded(SplitWords(chunks[k].content))
                    + 50 * Len(code_fence_matches(chunks[k].content))

\* C22 amended: token_estimate of every chunk is the integer part of
\* 1.3 x words of its content (13 x words divided by 10, the remainder
\* dropped) + 50 x complete code fences of its content.
C22_EstimateTruncates ==
    Returned =>
        \A k \in 1..Len(chunks) :
            /\ chunks[k].token_estimate
                  = ((13 * SplitWords(chunks[k].content)) \div 10)
                      + 50 * Len(code_fence_matches(chunks[k].content))
            /\ chunks[k].token_estimate = estimate_tokens(chunks[k].content)

\* a chunk with a complete fence whose word count rounds up: its estimate is
\* one less than the rounded one
C22_Witness ==
    /\ Returned
    /\ \E k \in 1..Len(chunks) :
          /\ code_fence_matches(chunks[k].content) # <<>>
          /\ chunks[k].token_estimate + 1
                = BaseTokens_Rounded(SplitWords(chunks[k].content))
                    + 50 * Len(code_fence_matches(chunks[k].content))

\* the character at 1-based index p of cs is the first of a line
LineInitial(cs, p) == p = 1 \/ cs[p - 1] = "\n"

\* three backquotes at the 1-based indices p, p + 1, p + 2 of cs
ThreeBackquotesAt(cs, p) ==
    p + 2 <= Len(cs) /\ cs[p] = BQ /\ cs[p + 1] = BQ /\ cs[p + 2] = BQ

\* the index of the newline that ends a fence-open marker starting at p: three
\* backquotes, word characters only, newline; 0 when there is none
OpenMarkerEnd(cs, p) ==
    IF ThreeBackquotesAt(cs, p)
          /\ \E e \in (p + 3)..Len(cs) :
                cs[e] = "\n" /\ \A i \in (p + 3)..(e - 1) : IsWordChar(cs[i])
    THEN CHOOSE e \in (p + 3)..Len(cs) :
            cs[e] = "\n" /\ \A i \in (p + 3)..(e - 1) : IsWordChar(cs[i])
    ELSE 0

FenceOpenAt(cs, p) == LineInitial(cs, p) /\ OpenMarkerEnd(cs, p) # 0

FenceCloseAt(cs, p) == LineInitial(cs, p) /\ ThreeBackquotesAt(cs, p)

MarkerLine == <<"---">>

\* the number of the first '---' line after the first line, or 0
ClosingMarkerLine(lines) ==
    IF \E j \in 2..Len(lines) : lines[j] = MarkerLine
    THEN CHOOSE j \in 2..Len(lines) :
            lines[j] = MarkerLine /\ \A i \in 2..(j - 1) : lines[i] # MarkerLine
    ELSE 0

\* the document starts with a block delimited by '---' lines: its first line
\* is '---' and a later line is '---'
StartsWithDelimitedBlock(lines) == lines[1] = MarkerLine /\ ClosingMarkerLine(lines) # 0

LineKey(cs) == RStrip(LStrip(SubSeq(cs, 1, StrFindFrom(cs, <<":">>, 0))))
LineValue(cs) == StripValue(SubSeq(cs, StrFindFrom(cs, <<":">>, 0) + 2, Len(cs)))

\* the dict has an entry for every line with a colon, whose value is the
\* line's unless a later line has the same key, and no other entry
EntriesOfLines(dict, lines) ==
    LET keyed == {i \in 1..Len(lines) : StrFindFrom(Chars(lines[i]), <<":">>, 0) >= 0}
    IN  /\ DOMAIN dict = {LineKey(Chars(lines[i])) : i \in keyed}
        /\ \A i \in keyed :
              \/ dict[LineKey(Chars(lines[i]))] = LineValue(Chars(lines[i]))
              \/ \E j \in keyed : j > i /\ LineKey(Chars(lines[j])) = LineKey(Chars(lines[i]))

\* C24: extract_frontmatter returns (None, content) with the text unchanged
\* when the document does not start with a '---' delimited block; when it
\* does, the returned body is exactly the text after the closing marker line,
\* and the metadata has an entry for each block line that holds ':' (split at
\* the first ':', value unquoted) and none for the lines without ':'.
C24_FrontmatterSplit ==
    Returned =>
        LET lines == Split(content, <<NL>>)
            close == ClosingMarkerLine(lines)
            result == extract_frontmatter(content)
        IN  IF StartsWithDelimitedBlock(lines)
            THEN /\ result.matched
                 /\ result.remaining_content
                       = Join(SubSeq(lines, close + 1, Len(lines)), <<NL>>)
                 /\ EntriesOfLines(frontmatter_dict(content), SubSeq(lines, 2, close - 1))
            ELSE /\ ~result.matched
                 /\ frontmatter_dict(content) = None
                 /\ result.remaining_content = content

\* cs holds a complete fenced code block: a line-initial fence-open marker
\* and, after the marker's newline, a line-initial three-backquote marker
HoldsCompleteFence(cs) ==
    \E p \in 1..Len(cs) :
        /\ FenceOpenAt(cs, p)
        /\ \E q \in (OpenMarkerEnd(cs, p) + 1)..Len(cs) : FenceCloseAt(cs, q)

\* C28: for every chunk returned by chunk_content, has_code is true exactly
\* when content_type is code_example or code_reference, and exactly when the
\* content holds a complete (opened and closed) fenced code block.
C28_HasCodeIffCodeType ==
    Returned =>
        \A k \in 1..Len(chunks) :
            /\ chunks[k].has_code
                  <=> chunks[k].content_type \in {"code_example", "code_reference"}
            /\ chunks[k].has_code <=> HoldsCompleteFence(Chars(chunks[k].content))

\* the returned chunks include one with a complete fence and one with a line
\* that starts a fence with a language tag but without a complete fence
C28_Witness ==
    /\ Returned
    /\ \E k \in 1..Len(chunks) : chunks[k].has_code
    /\ \E k \in 1..Len(chunks) : ~chunks[k].has_code /\ chunks[k].language # None

\* the translate calls made so far, as <<request, task>>
TranslateCalls ==
    {<<r, i>> \in (1..Len(translation.requests)) \X (1..MaxBatch) :
        i \in 1..Len(translation.requests[r].tasks)}

\* the cache key of translate call <<r, i>>
KeyOfCall(call) ==
    get_cache_key(translation.requests[call[1]].texts[call[2]],
                  translation.requests[call[1]].source_language,
                  translation.requests[call[1]].target_language)

\* C25: over any interleaving of translate calls, also the concurrent calls
\* of one batch_translate with duplicate texts, the external model is called
\* at most once per (text, source_language, target_language) whose
\* translation succeeds, and every translate call that starts once the key
\* is cached is answered with cached=True.
C25_OneModelCallPerKey ==
    phase = "translate" =>
        /\ \A n, m \in 1..Len(translation.model_calls) :
              (/\ n # m
               /\ translation.model_calls[n].cache_key = translation.model_calls[m].cache_key)
              => translation.model_calls[n].reply = "raise"
                    \/ translation.model_calls[m].reply = "raise"
        /\ \A call \in TranslateCalls :
              LET task == translation.requests[call[1]].tasks[call[2]]
              IN  (task.pc = "returned" /\ task.result.cached)
                      => KeyOfCall(call) \in DOMAIN translation._cache

\* a request was rejected by the handler's own validation
RejectedByValidation(request) ==
    \/ request.source_language \notin valid_languages
    \/ request.target_language \notin valid_languages
    \/ request.endpoint = "translate_batch" /\ request.texts = <<>>

\* C26: translate_text and translate_batch answer a request their own
\* validation rejects (a language outside {en, ur}, an empty texts list) with
\* status 400 and never 500; 500 is the answer only when the translation
\* itself failed.
C26_ValidationAnswers400 ==
    phase = "translate" =>
        \A r \in 1..Len(translation.requests) :
            LET request == translation.requests[r]
            IN  request.pc = "done" =>
                    /\ RejectedByValidation(request) => request.status = 400
                    /\ request.status = 500 =>
                          \E i \in 1..Len(request.tasks) : request.tasks[i].pc = "raised"

\* the responses of the translate calls that have returned
ReturnedCalls ==
    {call \in TranslateCalls :
        translation.requests[call[1]].tasks[call[2]].pc = "returned"}

\* C29: a translate call answered from the cache never reports a higher
\* confidence than the response that stored the entry, so the fallback text
\* of a blocked or empty model response (confidence 0.0) is not served later
\* at confidence 1.0; a call that raises stores nothing in the cache.
C29_CacheHitKeepsConfidence ==
    phase = "translate" =>
        /\ \A call \in ReturnedCalls :
              LET result == translation.requests[call[1]].tasks[call[2]].result
              IN  result.cached => result.confidence <= translation.stored[KeyOfCall(call)]
        /\ \A k \in DOMAIN translation._cache :
              \E n \in 1..Len(translation.model_calls) :
                  /\ translation.model_calls[n].cache_key = k
                  /\ translation.model_calls[n].reply # "raise"

\* C30: batch_translate returns one result per input text in input order:
\* total_count is the number of texts, result i has original_text = texts[i]
\* whether the item succeeded, came from the cache or failed, a failing item
\* never fails the batch, and cached_count counts the results with
\* cached=True.
C30_BatchOneResultPerText ==
    phase = "translate" =>
        \A r \in 1..Len(translation.requests) :
            LET request == translation.requests[r]
            IN  (/\ request.endpoint = "translate_batch"
                 /\ request.pc = "done"
                 /\ ~RejectedByValidation(request))
                => /\ request.status = 200
                   /\ Len(request.response.translations) = Len(request.texts)
                   /\ request.response.total_count = Len(request.texts)
                   /\ \A i \in 1..Len(request.texts) :
                         request.response.translations[i].original_text = request.texts[i]
                   /\ request.response.cached_count
                         = Cardinality({i \in 1..Len(request.texts) :
                               request.response.translations[i].cached})

\* the signup requests that carry email
SignupsOf(email) == {r \in 1..Len(auth.requests) : auth.requests[r].email = email}

\* C27: for any interleaving of concurrent signup requests with the same
\* email, at most one user row with that email exists afterwards, exactly
\* one request receives a token, and every other request is answered 400,
\* never 500.
C27_DuplicateSignupAnswers400 ==
    (phase = "signup" /\ auth.pool) =>
        \A email \in Emails :
            /\ Cardinality({row \in auth.users : row.email = email}) <= 1
            /\ \A r \in SignupsOf(email) :
                  auth.requests[r].pc = "done" => auth.requests[r].status \in {200, 400}
            /\ (SignupsOf(email) # {} /\ \A r \in SignupsOf(email) : auth.requests[r].pc = "done")
                  => Cardinality({r \in SignupsOf(email) : auth.requests[r].status = 200}) = 1

====
